---- MODULE Spec2Model ----
(***************************************************************************)
(* Valdris Time & Celestial (VTC): the calendar clock of time-engine.js,   *)
(* the domain store of valdris-core and the event bus, as state machines.  *)
(*                                                                         *)
(*   Spec       the calendar clock driven by awaited calls: every call of  *)
(*              advanceTime / setTime runs to completion before the next.  *)
(*   SpecAsync  the same operations issued without awaiting one another:   *)
(*              the synchronous part of a call, the queued commit of       *)
(*              setDomainState and the continuation that emits the events  *)
(*              are separate steps.                                        *)
(***************************************************************************)
EXTENDS Integers, Sequences, FiniteSets, TLC

VARIABLES
    time,       \* Spec: the calendar fields of the 'time' domain object
    last,       \* Spec: record of the call that ran last (its inputs and outputs)
    heap,       \* SpecAsync: the time-state objects, by identity
    stored,     \* SpecAsync: chatMetadata[CORE_META_KEY].time (an object id or 0 = null)
    calls,      \* SpecAsync: one record per advanceTime / setTime invocation
    mutex,      \* SpecAsync: the jobs chained on _saveMutex, oldest first
    saving,     \* SpecAsync: TRUE while the head job awaits ctx.saveMetadata()
    emitted,    \* SpecAsync: the events handed to listeners so far
    handlers,   \* SpecAsync: the running onNewDay handlers
    requireDefined \* SpecAsync: whether the host defines a global require()

calVars == <<time, last>>
asyncVars == <<heap, stored, calls, mutex, saving, emitted, handlers, requireDefined>>
vars == <<time, last, heap, stored, calls, mutex, saving, emitted, handlers, requireDefined>>

----------------------------------------------------------------------------
(* Bounds of the model *)

\* the calendar is explored up to the end of this year (2848 is a leap year)
MaxYear == 2848

\* the number of advanceTime / setTime / initializeTimeState invocations that
\* SpecAsync issues without awaiting one another
MaxCalls == 2

----------------------------------------------------------------------------
(* Valdris calendar system *)

MONTHS == <<
    [name |-> "Frostmorn",  days |-> 30, season |-> "winter"],
    [name |-> "Deepsnow",   days |-> 28, season |-> "winter"],
    [name |-> "Thawbreak",  days |-> 31, season |-> "spring"],
    [name |-> "Rainbloom",  days |-> 30, season |-> "spring"],
    [name |-> "Sunrise",    days |-> 31, season |-> "spring"],
    [name |-> "Highsun",    days |-> 30, season |-> "summer"],
    [name |-> "Goldpeak",   days |-> 31, season |-> "summer"],
    [name |-> "Harvest",    days |-> 31, season |-> "autumn"],
    [name |-> "Leaffall",   days |-> 30, season |-> "autumn"],
    [name |-> "Dimlight",   days |-> 30, season |-> "autumn"],
    [name |-> "Darkeve",    days |-> 30, season |-> "winter"],
    [name |-> "Stillnight", days |-> 29, season |-> "winter"] >>

\* getMonthLength(month, year): MONTHS[month - 1] of the 0-indexed source array
\* is MONTHS[month] here; a month outside the table has 30 days.
getMonthLength(month, year) ==
    IF month \notin 1..Len(MONTHS) THEN 30
    ELSE IF month = 12 /\ year % 4 = 0 THEN 30
    ELSE MONTHS[month].days

\* getYearLength(year): for (m = 1; m <= 12; m++) total += getMonthLength(m, year)
RECURSIVE SumMonths(_, _, _)
SumMonths(from, to, year) ==
    IF from > to THEN 0
    ELSE getMonthLength(from, year) + SumMonths(from + 1, to, year)

getYearLength(year) == SumMonths(1, 12, year)

\* The sum of getYearLength over the years lo..hi, as calculateDayOfWeek adds
\* them up; the range is halved so that the recursion stays shallow.
RECURSIVE SumYears(_, _)
SumYears(lo, hi) ==
    IF lo > hi THEN 0
    ELSE IF lo = hi THEN getYearLength(lo)
    ELSE LET mid == (lo + hi) \div 2
         IN  SumYears(lo, mid) + SumYears(mid + 1, hi)

\* calculateDayOfWeek's totalDays: days since the epoch (year 1, month 1, day 1)
\* (tabulated for the years the model visits: the table is computed once)
DaysBeforeYear == [y \in (MaxYear - 3)..(MaxYear + 3) |-> SumYears(1, y - 1)]

totalDays(year, month, day) ==
    DaysBeforeYear[year] + SumMonths(1, month - 1, year) + (day - 1)

\* The snapshot's absolute minute count since the epoch
AbsMinutes(t) == totalDays(t.year, t.month, t.day) * 1440 + t.hour * 60 + t.minute

\* createDefaultTimeState: the calendar fields of a new game
DefaultTime == [year |-> 2847, month |-> 7, day |-> 14, hour |-> 18, minute |-> 0]

Max(a, b) == IF a >= b THEN a ELSE b
Min(a, b) == IF a <= b THEN a ELSE b

----------------------------------------------------------------------------
(* advanceTime: the overflow cascade *)

\* The guard of advanceTime: `if (minutes <= 0) return getDomainState(DOMAIN)`
IsNoOpZeroOnly(minutes) == minutes = 0
IsNoOp(minutes) == minutes <= 0

\* `while (state.day > monthLength) { ... }`: monthLength is the constant that
\* was read before the loop, from the month and year the call started in.
RECURSIVE dayOverflow(_, _, _, _, _, _)
dayOverflow(day, month, year, monthLength, monthAdvanced, yearAdvanced) ==
    IF day > monthLength
    THEN IF month + 1 > 12
         THEN dayOverflow(day - monthLength, 1, year + 1, monthLength, TRUE, TRUE)
         ELSE dayOverflow(day - monthLength, month + 1, year, monthLength, TRUE, yearAdvanced)
    ELSE [day |-> day, month |-> month, year |-> year,
          monthAdvanced |-> monthAdvanced, yearAdvanced |-> yearAdvanced]

\* The cascade of advanceTime on the calendar fields of state t, for minutes > 0.
\* `while (minute >= 60) { minute -= 60; hour++ }` and the hour loop are
\* repeated subtraction: a quotient and a remainder when the loop runs at all.
cascade(t, minutes) ==
    LET minute0 == t.minute + minutes
        minute1 == IF minute0 >= 60 THEN minute0 % 60 ELSE minute0
        hour0   == IF minute0 >= 60 THEN t.hour + (minute0 \div 60) ELSE t.hour
        hour1   == IF hour0 >= 24 THEN hour0 % 24 ELSE hour0
        day0    == IF hour0 >= 24 THEN t.day + (hour0 \div 24) ELSE t.day
        dayAdvanced == hour0 >= 24
        monthLength == getMonthLength(t.month, t.year)
        r == dayOverflow(day0, t.month, t.year, monthLength, FALSE, FALSE)
    IN  [time |-> [year |-> r.year, month |-> r.month, day |-> r.day,
                   hour |-> hour1, minute |-> minute1],
         dayAdvanced |-> dayAdvanced,
         monthAdvanced |-> r.monthAdvanced,
         yearAdvanced |-> r.yearAdvanced]

\* The events advanceTime emits once its state is saved
advanceEvents(r, silent) ==
    IF silent THEN <<>>
    ELSE <<"timeAdvanced">>
         \o (IF r.dayAdvanced THEN <<"newDay">> ELSE <<>>)
         \o (IF r.monthAdvanced THEN <<"newMonth">> ELSE <<>>)
         \o (IF r.yearAdvanced THEN <<"newYear">> ELSE <<>>)

----------------------------------------------------------------------------
(* setTime: partial update and validation *)

\* A partial update: `has` names the fields that are not undefined.
Partial(has, year, month, day, hour, minute) ==
    [has |-> has, year |-> year, month |-> month, day |-> day,
     hour |-> hour, minute |-> minute]

NoPartial == Partial({}, 0, 0, 0, 0, 0)

\* `state.day = Math.max(1, Math.min(getMonthLength(state.month, state.year), state.day))`
clampDayTo31(day, month, year) == Max(1, Min(31, day))
clampDay(day, month, year) == Max(1, Min(getMonthLength(month, year), day))

\* setTime on the calendar fields of state t
setTimeFields(t, newTime) ==
    LET year0   == IF "year" \in newTime.has THEN newTime.year ELSE t.year
        month0  == IF "month" \in newTime.has THEN newTime.month ELSE t.month
        day0    == IF "day" \in newTime.has THEN newTime.day ELSE t.day
        hour0   == IF "hour" \in newTime.has THEN newTime.hour ELSE t.hour
        minute0 == IF "minute" \in newTime.has THEN newTime.minute ELSE t.minute
        month1  == Max(1, Min(12, month0))
    IN  [year |-> year0,
         month |-> month1,
         day |-> clampDay(day0, month1, year0),
         hour |-> Max(0, Min(23, hour0)),
         minute |-> Max(0, Min(59, minute0))]

----------------------------------------------------------------------------
(* Spec: the clock driven by awaited calls *)

\* The minutes the callers pass: a negative value, zero, six hours, a day,
\* thirty days, seventy-nine days (two month boundaries and more).
AdvanceInputs == {0 - 60, 0, 360, 1440, 43200, 113760}

SetTimeInputs == {
    NoPartial,
    Partial({"month", "day"}, 0, 2, 31, 0, 0),
    Partial({"month", "day"}, 0, 13, 0, 0, 0),
    Partial({"month"}, 0, 0, 0, 0, 0),
    Partial({"month"}, 0, 12, 0, 0, 0),
    Partial({"hour", "minute"}, 0, 0, 0, 24, 60),
    Partial({"hour", "minute"}, 0, 0, 0, 0 - 1, 0 - 1),
    Partial({"year", "month", "day"}, 2848, 12, 30, 0, 0),
    Partial({"year"}, 2847, 0, 0, 0, 0),
    Partial({"day"}, 0, 0, 40, 0, 0),
    Partial({"day"}, 0, 0, 29, 0, 0),
    Partial({"year", "month", "day", "hour", "minute"}, 2847, 9, 15, 12, 30) }

NoCall == [op |-> "none", minutes |-> 0, silent |-> FALSE, newTime |-> NoPartial,
           before |-> DefaultTime, completion |-> "returned", events |-> <<>>]

Init ==
    /\ time = DefaultTime
    /\ last = NoCall
    /\ heap = <<>>
    /\ stored = 0
    /\ calls = <<>>
    /\ mutex = <<>>
    /\ saving = FALSE
    /\ emitted = {}
    /\ handlers = <<>>
    /\ requireDefined = TRUE

\* await advanceTime(minutes, {silent}) with the save succeeding
AdvanceTime(minutes, silent) ==
    /\ IF IsNoOp(minutes)
       THEN /\ time' = time
            /\ last' = [op |-> "advance", minutes |-> minutes, silent |-> silent,
                        newTime |-> NoPartial, before |-> time,
                        completion |-> "returned", events |-> <<>>]
       ELSE LET r == cascade(time, minutes)
            IN  /\ r.time.year <= MaxYear
                /\ time' = r.time
                /\ last' = [op |-> "advance", minutes |-> minutes, silent |-> silent,
                            newTime |-> NoPartial, before |-> time,
                            completion |-> "returned",
                            events |-> advanceEvents(r, silent)]
    /\ UNCHANGED asyncVars

\* await setTime(newTime) with the save succeeding
SetTime(newTime) ==
    /\ time' = setTimeFields(time, newTime)
    /\ last' = [op |-> "setTime", minutes |-> 0, silent |-> FALSE,
                newTime |-> newTime, before |-> time,
                completion |-> "returned", events |-> <<"timeSet">>]
    /\ UNCHANGED asyncVars

Advance == \E minutes \in AdvanceInputs, silent \in BOOLEAN : AdvanceTime(minutes, silent)
SetAbsolute == \E newTime \in SetTimeInputs : SetTime(newTime)

Next == Advance \/ SetAbsolute

Spec == Init /\ [][Next]_vars

----------------------------------------------------------------------------
(* Moon phases (time-engine.js) *)

MOON_PHASES == << "new", "waxing_crescent", "first_quarter", "waxing_gibbous",
                  "full", "waning_gibbous", "last_quarter", "waning_crescent" >>

LUNARA_CYCLE == 28
VEIL_CYCLE == 35

\* MOON_PHASES[Math.floor(dayInCycle / (cycle / 8))]: the quotient by cycle/8
\* is the integer quotient of 8 * dayInCycle by cycle; the table is 1-indexed here.
phaseOfRemainder(dayInCycle, cycle) == MOON_PHASES[(dayInCycle % 8) + 1]
phaseOf(dayInCycle, cycle) == MOON_PHASES[((8 * dayInCycle) \div cycle) + 1]

\* createDefaultTimeState().moons
DefaultMoons ==
    [lunara |-> [dayInCycle |-> 11, phase |-> "waxing_gibbous"],
     veil   |-> [dayInCycle |-> 0, phase |-> "new"]]

\* updateMoonPhases(state): one step of both cycles, whatever the days elapsed
updateMoonPhases(moons) ==
    LET l == (moons.lunara.dayInCycle + 1) % LUNARA_CYCLE
        v == (moons.veil.dayInCycle + 1) % VEIL_CYCLE
    IN  [lunara |-> [dayInCycle |-> l, phase |-> phaseOf(l, LUNARA_CYCLE)],
         veil   |-> [dayInCycle |-> v, phase |-> phaseOf(v, VEIL_CYCLE)]]

----------------------------------------------------------------------------
(* Celestial events and festivals (celestial-tracker.js) *)

\* CELESTIAL_EVENTS: the rule ids in table order, and each rule's condition
CELESTIAL_EVENT_IDS ==
    << "convergence", "veils_eclipse", "void_night", "silver_tide", "starfall" >>

eventConditionLunaraOnly(id, lunara, veil, date) ==
    CASE id = "convergence"   -> lunara.phase = "full"
      [] id = "veils_eclipse" -> lunara.phase = "full"
                                   /\ veil.dayInCycle = VEIL_CYCLE \div 2
      [] id = "void_night"    -> lunara.phase = "new" /\ veil.phase = "new"
      [] id = "silver_tide"   -> lunara.phase = "full" /\ lunara.dayInCycle % 7 = 0
      [] id = "starfall"      -> date.month = 8 /\ date.day >= 10 /\ date.day <= 15

eventCondition(id, lunara, veil, date) ==
    CASE id = "convergence"   -> lunara.phase = "full" /\ veil.phase = "full"
      [] id = "veils_eclipse" -> lunara.phase = "full"
                                   /\ veil.dayInCycle = VEIL_CYCLE \div 2
      [] id = "void_night"    -> lunara.phase = "new" /\ veil.phase = "new"
      [] id = "silver_tide"   -> lunara.phase = "full" /\ lunara.dayInCycle % 7 = 0
      [] id = "starfall"      -> date.month = 8 /\ date.day >= 10 /\ date.day <= 15

\* checkCelestialEvents(timeState): the ids of the active events, in table order
checkCelestialEvents(s) ==
    SelectSeq(CELESTIAL_EVENT_IDS,
              LAMBDA id : eventCondition(id, s.moons.lunara, s.moons.veil,
                                         [month |-> s.month, day |-> s.day]))

FESTIVALS == <<
    [name |-> "Frostmeet",             month |-> 1,  day |-> 1,  duration |-> 3],
    [name |-> "Thaw Festival",         month |-> 3,  day |-> 15, duration |-> 1],
    [name |-> "Solstice of Light",     month |-> 6,  day |-> 21, duration |-> 1],
    [name |-> "Midsummer Eve",         month |-> 7,  day |-> 15, duration |-> 2],
    [name |-> "Harvest Moon Festival", month |-> 8,  day |-> 20, duration |-> 3],
    [name |-> "Veilnight",             month |-> 10, day |-> 31, duration |-> 1],
    [name |-> "Darkest Eve",           month |-> 12, day |-> 21, duration |-> 1],
    [name |-> "Year's End",            month |-> 12, day |-> 29, duration |-> 2] >>

\* getDaysUntilDate: `while (m <= 12) { days += getMonthLength(m, y); m++ }`
finishYear(month, y) ==
    LET loop[m \in 1..13] == IF m <= 12 THEN getMonthLength(m, y) + loop[m + 1] ELSE 0
    IN  loop[month]

\* getDaysUntilDate: `while (m < targetMonth || (nextYear && y === year))
\* { if (m > 12) { m = 1; y++; } days += getMonthLength(m, y); m++; }`
fullMonths(month, fromYear, targetMonth, nextYear, year) ==
    LET loop[m \in 1..13, y \in {fromYear, fromYear + 1}] ==
            IF m < targetMonth \/ (nextYear /\ y = year)
            THEN LET m1 == IF m > 12 THEN 1 ELSE m
                     y1 == IF m > 12 THEN y + 1 ELSE y
                 IN  getMonthLength(m1, y1) + loop[m1 + 1, y1]
            ELSE 0
    IN  loop[month, fromYear]

\* getDaysUntilDate(timeState, targetMonth, targetDay, nextYear), past its
\* require('./time-engine.js')
getDaysUntilDate(s, targetMonth, targetDay, nextYear) ==
    IF s.month = targetMonth /\ ~nextYear THEN targetDay - s.day
    ELSE LET left == getMonthLength(s.month, s.year) - s.day
             wrap == nextYear /\ targetMonth <= s.month
             rest == IF wrap THEN finishYear(s.month + 1, s.year) ELSE 0
             m    == IF wrap THEN 1 ELSE s.month + 1
             y    == IF wrap THEN s.year + 1 ELSE s.year
         IN  left + rest + fullMonths(m, y, targetMonth, nextYear, s.year) + targetDay

\* getUpcomingFestivals: daysUntil of one festival
festivalDaysUntil(s, festival) ==
    IF festival.month = s.month THEN festival.day - s.day
    ELSE IF festival.month > s.month
    THEN getDaysUntilDate(s, festival.month, festival.day, FALSE)
    ELSE getDaysUntilDate(s, festival.month, festival.day, TRUE)

\* getUpcomingFestivals without its final sort: the kept entries in table order
getUpcomingFestivalsUnsorted(s, daysAhead) ==
    LET daysUntil == [i \in 1..Len(FESTIVALS) |-> festivalDaysUntil(s, FESTIVALS[i])]
        kept == SelectSeq([i \in 1..Len(FESTIVALS) |-> i],
                          LAMBDA i : daysUntil[i] >= 0 /\ daysUntil[i] <= daysAhead)
    IN  [p \in 1..Len(kept) |->
            [name |-> FESTIVALS[kept[p]].name,
             daysUntil |-> daysUntil[kept[p]],
             isToday |-> daysUntil[kept[p]] = 0,
             isOngoing |-> daysUntil[kept[p]] < 0
                             /\ daysUntil[kept[p]] >= 0 - FESTIVALS[kept[p]].duration]]

\* getUpcomingFestivals(timeState, daysAhead): the festivals with daysUntil in
\* 0..daysAhead, sorted by `upcoming.sort((a, b) => a.daysUntil - b.daysUntil)`.
\* The sort is stable, so an entry's place is the number of kept entries with
\* fewer days, or with as many days and an earlier place in the table, plus one.
getUpcomingFestivals(s, daysAhead) ==
    LET daysUntil == [i \in 1..Len(FESTIVALS) |-> festivalDaysUntil(s, FESTIVALS[i])]
        kept == {i \in 1..Len(FESTIVALS) : daysUntil[i] >= 0 /\ daysUntil[i] <= daysAhead}
        place == [i \in kept |->
                    Cardinality({j \in kept : \/ daysUntil[j] < daysUntil[i]
                                              \/ daysUntil[j] = daysUntil[i] /\ j < i}) + 1]
        entry == [i \in kept |->
                    [name |-> FESTIVALS[i].name,
                     daysUntil |-> daysUntil[i],
                     isToday |-> daysUntil[i] = 0,
                     isOngoing |-> daysUntil[i] < 0
                                     /\ daysUntil[i] >= 0 - FESTIVALS[i].duration]]
    IN  [p \in 1..Cardinality(kept) |-> entry[CHOOSE i \in kept : place[i] = p]]

\* updateCelestialState: `getUpcomingFestivals(state, 14)`
FESTIVAL_HORIZON == 14

\* getUpcomingFestivals reaches getDaysUntilDate, and so its require(), as soon
\* as one festival lies in another month than the current one
callsRequire(s) == \E i \in 1..Len(FESTIVALS) : FESTIVALS[i].month # s.month

----------------------------------------------------------------------------
(* SpecAsync: calls issued without awaiting one another *)

\* createDefaultTimeState(): the object a call works on when the domain is null
DefaultState ==
    [year |-> DefaultTime.year, month |-> DefaultTime.month, day |-> DefaultTime.day,
     hour |-> DefaultTime.hour, minute |-> DefaultTime.minute,
     moons |-> DefaultMoons,
     weather |-> <<"default", 0>>,
     celestialEvents |-> <<>>,
     upcomingFestivals |-> <<>>]

calendarOf(s) ==
    [year |-> s.year, month |-> s.month, day |-> s.day, hour |-> s.hour, minute |-> s.minute]

withCalendar(s, t) ==
    [s EXCEPT !.year = t.year, !.month = t.month, !.day = t.day,
              !.hour = t.hour, !.minute = t.minute]

\* `getDomainState(DOMAIN) || createDefaultTimeState()`: the live object of the
\* store, or a new object that the store does not hold yet
refOf(st, hp) == IF st # 0 THEN st ELSE Len(hp) + 1
heapWith(st, hp) == IF st # 0 THEN hp ELSE Append(hp, DefaultState)

\* How the awaiting caller goes on once its job on _saveMutex has settled:
\* setDomainState catches the error and resolves to false, and no caller looks
\* at the boolean, so the continuation runs after a failed save as after a good one.
afterSaveRejects(ok) == IF ok THEN "resume" ELSE "rejected"
afterSave(ok) == "resume"

\* The advanceTime calls issued: <<minutes, silent>>. From 18:00, 90 minutes
\* stay within the day and 360 minutes cross midnight.
AsyncAdvanceInputs == { <<0, FALSE>>, <<90, FALSE>>, <<360, FALSE>>, <<360, TRUE>> }

AsyncSetTimeInputs == { Partial({"month", "day", "hour"}, 0, 8, 12, 23, 0) }

NewCall(op, minutes, silent, newTime, ref, oldTime, r, pc) ==
    [op |-> op, minutes |-> minutes, silent |-> silent, newTime |-> newTime,
     ref |-> ref, oldTime |-> oldTime,
     dayAdvanced |-> r.dayAdvanced, monthAdvanced |-> r.monthAdvanced,
     yearAdvanced |-> r.yearAdvanced,
     pc |-> pc, saveOk |-> TRUE,
     completion |-> IF pc = "done" THEN "returned" ELSE "pending"]

NoFlags == [dayAdvanced |-> FALSE, monthAdvanced |-> FALSE, yearAdvanced |-> FALSE]

InitAsync ==
    /\ time = DefaultTime
    /\ last = NoCall
    /\ heap = <<>>
    /\ stored = 0
    /\ calls = <<>>
    /\ mutex = <<>>
    /\ saving = FALSE
    /\ emitted = {}
    /\ handlers = <<>>
    /\ requireDefined \in BOOLEAN

\* advanceTime(minutes, {silent}) up to its `await setDomainState(...)`: the
\* state object is read and mutated in place, and the save is chained on _saveMutex
StartAdvance(minutes, silent) ==
    /\ Len(calls) < MaxCalls
    /\ IF IsNoOp(minutes)
       THEN /\ calls' = Append(calls, NewCall("advance", minutes, silent, NoPartial,
                                              stored, DefaultTime, NoFlags, "done"))
            /\ UNCHANGED <<heap, mutex>>
       ELSE LET ref == refOf(stored, heap)
                hp  == heapWith(stored, heap)
                r   == cascade(calendarOf(hp[ref]), minutes)
                s1  == withCalendar(hp[ref], r.time)
                s2  == IF r.dayAdvanced
                       THEN [s1 EXCEPT !.moons = updateMoonPhases(s1.moons)]
                       ELSE s1
            IN  /\ heap' = [hp EXCEPT ![ref] = s2]
                /\ mutex' = Append(mutex, [kind |-> "call", idx |-> Len(calls) + 1,
                                           data |-> ref])
                /\ calls' = Append(calls, NewCall("advance", minutes, silent, NoPartial,
                                                  ref, calendarOf(hp[ref]), r, "awaitSave"))
    /\ UNCHANGED <<time, last, stored, saving, emitted, handlers, requireDefined>>

\* setTime(newTime) up to its `await setDomainState(...)`
StartSetTime(newTime) ==
    /\ Len(calls) < MaxCalls
    /\ LET ref == refOf(stored, heap)
           hp  == heapWith(stored, heap)
           s1  == withCalendar(hp[ref], setTimeFields(calendarOf(hp[ref]), newTime))
           s2  == [s1 EXCEPT !.moons = updateMoonPhases(s1.moons)]
       IN  /\ heap' = [hp EXCEPT ![ref] = s2]
           /\ mutex' = Append(mutex, [kind |-> "call", idx |-> Len(calls) + 1,
                                      data |-> ref])
           /\ calls' = Append(calls, NewCall("setTime", 0, FALSE, newTime, ref,
                                             calendarOf(hp[ref]), NoFlags, "awaitSave"))
    /\ UNCHANGED <<time, last, stored, saving, emitted, handlers, requireDefined>>

\* initializeTimeState() up to its `await setDomainState(...)`: a null domain
\* gets a default state with generated weather; a present one is returned as it is
StartInitialize ==
    /\ Len(calls) < MaxCalls
    /\ IF stored # 0
       THEN /\ calls' = Append(calls, NewCall("initialize", 0, FALSE, NoPartial,
                                              stored, DefaultTime, NoFlags, "done"))
            /\ UNCHANGED <<heap, mutex>>
       ELSE LET ref == Len(heap) + 1
            IN  /\ heap' = Append(heap, [DefaultState EXCEPT
                                            !.weather = <<"initialize", Len(calls) + 1>>])
                /\ mutex' = Append(mutex, [kind |-> "call", idx |-> Len(calls) + 1,
                                           data |-> ref])
                /\ calls' = Append(calls, NewCall("initialize", 0, FALSE, NoPartial,
                                                  ref, DefaultTime, NoFlags, "awaitSave"))
    /\ UNCHANGED <<time, last, stored, saving, emitted, handlers, requireDefined>>

\* The head job of _saveMutex starts: `fullState[domain] = data`, then
\* saveFullState awaits ctx.saveMetadata()
JobBegin ==
    /\ mutex # <<>>
    /\ ~saving
    /\ stored' = Head(mutex).data
    /\ saving' = TRUE
    /\ UNCHANGED <<time, last, heap, calls, mutex, emitted, handlers, requireDefined>>

\* ctx.saveMetadata() settles: resolved (ok) or rejected. A good save emits
\* 'domainChanged'; a failed one is logged and the job resolves to false.
\* What onNewDay does after `await updateCelestialState(...)` (redraw the
\* header, log) touches nothing of this state: the listener is done with it.
JobEnd(ok) ==
    /\ saving
    /\ saving' = FALSE
    /\ mutex' = Tail(mutex)
    /\ emitted' = IF ok
                  THEN emitted \cup {[event |-> "domainChanged", call |-> 0,
                                      minutesElapsed |-> 0,
                                      oldTime |-> DefaultTime, newTime |-> DefaultTime]}
                  ELSE emitted
    /\ LET job == Head(mutex)
       IN  IF job.kind = "call"
           THEN /\ calls' = [calls EXCEPT ![job.idx].pc = afterSave(ok),
                                          ![job.idx].saveOk = ok]
                /\ UNCHANGED handlers
           ELSE /\ handlers' = [handlers EXCEPT
                                   ![job.idx].pc = IF handlers[job.idx].pc = "awaitWeatherSave"
                                                   THEN "afterWeather" ELSE "done"]
                /\ UNCHANGED calls
    /\ UNCHANGED <<time, last, heap, stored, requireDefined>>

\* ValdrisEventBus.emit(event, data) as the listeners see it: the payload's
\* newTime is the live state object, read at the moment of the emit
Emission(event, i, hp) ==
    [event |-> event, call |-> i, minutesElapsed |-> calls[i].minutes,
     oldTime |-> calls[i].oldTime, newTime |-> calendarOf(hp[calls[i].ref])]

\* The continuation of call i after its await: the emits, and with 'newDay' the
\* part of the onNewDay listener that runs inside the emit, updateWeather up to
\* its own `await setDomainState(...)`
Resume(i) ==
    /\ i \in 1..Len(calls)
    /\ calls[i].pc = "resume"
    /\ calls' = [calls EXCEPT ![i].pc = "done", ![i].completion = "returned"]
    /\ LET c == calls[i]
           newDay == c.op = "advance" /\ ~c.silent /\ c.dayAdvanced
           hp == IF newDay /\ stored # 0
                 THEN [heap EXCEPT ![stored].weather = <<"newDay", Len(handlers) + 1>>]
                 ELSE heap
       IN  /\ heap' = hp
           /\ emitted' =
                emitted \cup
                (CASE c.op = "advance" /\ ~c.silent ->
                        {Emission("timeAdvanced", i, heap)}
                        \cup (IF c.dayAdvanced THEN {Emission("newDay", i, heap)} ELSE {})
                        \cup (IF c.monthAdvanced THEN {Emission("newMonth", i, hp)} ELSE {})
                        \cup (IF c.yearAdvanced THEN {Emission("newYear", i, hp)} ELSE {})
                   [] c.op = "setTime" -> {Emission("timeSet", i, heap)}
                   [] OTHER -> {})
           /\ handlers' = IF newDay
                          THEN Append(handlers, [call |-> i,
                                                 pc |-> IF stored # 0 THEN "awaitWeatherSave"
                                                        ELSE "done"])
                          ELSE handlers
           /\ mutex' = IF newDay /\ stored # 0
                       THEN Append(mutex, [kind |-> "handler", idx |-> Len(handlers) + 1,
                                           data |-> stored])
                       ELSE mutex
    /\ UNCHANGED <<time, last, stored, saving, requireDefined>>

\* onNewDay after `await updateWeather(...)`: 'weatherChanged' is emitted, then
\* updateCelestialState runs up to its `await setDomainState(...)`. Where
\* require is not defined, getUpcomingFestivals throws after celestialEvents was
\* assigned, and the async listener ends rejected.
AfterWeather(j) ==
    /\ j \in 1..Len(handlers)
    /\ handlers[j].pc = "afterWeather"
    /\ emitted' = emitted \cup {[event |-> "weatherChanged", call |-> handlers[j].call,
                                  minutesElapsed |-> 0,
                                  oldTime |-> DefaultTime, newTime |-> DefaultTime]}
    /\ IF stored = 0
       THEN /\ handlers' = [handlers EXCEPT ![j].pc = "done"]
            /\ UNCHANGED <<heap, mutex>>
       ELSE \E s1 \in {[heap[stored] EXCEPT
                            !.celestialEvents = checkCelestialEvents(heap[stored])]} :
                IF callsRequire(s1) /\ ~requireDefined
                THEN /\ heap' = [heap EXCEPT ![stored] = s1]
                     /\ handlers' = [handlers EXCEPT ![j].pc = "rejected"]
                     /\ UNCHANGED mutex
                ELSE /\ heap' = [heap EXCEPT ![stored] =
                                    [s1 EXCEPT !.upcomingFestivals =
                                        getUpcomingFestivals(s1, FESTIVAL_HORIZON)]]
                     /\ handlers' = [handlers EXCEPT ![j].pc = "awaitCelestialSave"]
                     /\ mutex' = Append(mutex, [kind |-> "handler", idx |-> j,
                                                data |-> stored])
    /\ UNCHANGED <<time, last, stored, calls, saving, requireDefined>>

CallAdvance == \E a \in AsyncAdvanceInputs : StartAdvance(a[1], a[2])
CallSetTime == \E newTime \in AsyncSetTimeInputs : StartSetTime(newTime)
SaveSettles == \E ok \in BOOLEAN : JobEnd(ok)
Continue == \E i \in 1..MaxCalls : Resume(i)
NewDayWeatherDone == \E j \in 1..MaxCalls : AfterWeather(j)

NextAsync ==
    \/ CallAdvance
    \/ CallSetTime
    \/ StartInitialize
    \/ JobBegin
    \/ SaveSettles
    \/ Continue
    \/ NewDayWeatherDone

SpecAsync == InitAsync /\ [][NextAsync]_vars

\* The host's scheduling: a chained job starts once its predecessor has settled,
\* every ctx.saveMetadata() call eventually settles, and a settled await resumes.
SpecAsyncFair ==
    /\ SpecAsync
    /\ WF_vars(JobBegin)
    /\ WF_vars(SaveSettles)
    /\ WF_vars(Continue)
    /\ WF_vars(NewDayWeatherDone)

----------------------------------------------------------------------------
(* The calendar clock under awaited calls: properties *)

TimeValid(t) ==
    /\ t.month \in 1..12
    /\ t.day >= 1 /\ t.day <= getMonthLength(t.month, t.year)
    /\ t.hour \in 0..23
    /\ t.minute \in 0..59

Count(seq, e) == Cardinality({i \in 1..Len(seq) : seq[i] = e})

\* C1: after advance(m), m >= 0, the snapshot's absolute minute count equals
\* the count before the call plus m, also for jumps over several months.
C1_AdvanceAddsMinutes ==
    (last.op = "advance" /\ last.minutes >= 0)
        => AbsMinutes(time) = AbsMinutes(last.before) + last.minutes

\* C2: every snapshot reachable by advance and setAbsolute calls has month in
\* 1..12, day in 1..monthLength(month, year), hour in 0..23, minute in 0..59.
C2_SnapshotInRange == TimeValid(time)

\* The boundaries that m minutes from the valid snapshot t cross, by the
\* calendar's own absolute minute count.
DayCrossed(t, m) == (AbsMinutes(t) + m) \div 1440 > AbsMinutes(t) \div 1440
MonthCrossed(t, m) ==
    AbsMinutes(t) + m >= (DaysBeforeYear[t.year] + SumMonths(1, t.month, t.year)) * 1440
YearCrossed(t, m) == AbsMinutes(t) + m >= DaysBeforeYear[t.year + 1] * 1440

\* C4: one non-silent advance emits the day notification exactly once when a
\* day boundary was crossed and not at all otherwise; likewise the month and
\* the year notification.
C4_OneNotificationPerCrossedUnit ==
    (last.op = "advance" /\ ~last.silent /\ last.minutes > 0 /\ TimeValid(last.before))
        => /\ Count(last.events, "newDay")
                = (IF DayCrossed(last.before, last.minutes) THEN 1 ELSE 0)
           /\ Count(last.events, "newMonth")
                = (IF MonthCrossed(last.before, last.minutes) THEN 1 ELSE 0)
           /\ Count(last.events, "newYear")
                = (IF YearCrossed(last.before, last.minutes) THEN 1 ELSE 0)

Requested(f) == IF f \in last.newTime.has THEN last.newTime[f] ELSE last.before[f]

\* C6: setAbsolute returns normally for out-of-range integers; the result is in
\* range for the resulting month and year; a field whose requested value
\* (provided, else previous) is in range has exactly that value.
C6_SetAbsoluteClamps ==
    last.op = "setTime"
        => /\ last.completion = "returned"
           /\ TimeValid(time)
           /\ time.year = Requested("year")
           /\ (Requested("month") \in 1..12 => time.month = Requested("month"))
           /\ (Requested("day") \in 1..getMonthLength(time.month, time.year)
                 => time.day = Requested("day"))
           /\ (Requested("hour") \in 0..23 => time.hour = Requested("hour"))
           /\ (Requested("minute") \in 0..59 => time.minute = Requested("minute"))
           /\ (Requested("month") < 1 => time.month = 1)
           /\ (Requested("month") > 12 => time.month = 12)
           /\ (Requested("day") < 1 => time.day = 1)
           /\ (Requested("day") > getMonthLength(time.month, time.year)
                 => time.day = getMonthLength(time.month, time.year))

\* an out-of-range month and day were passed, and a day above the month's length
C6_Witness ==
    /\ last.op = "setTime"
    /\ "month" \in last.newTime.has /\ last.newTime.month = 2
    /\ last.newTime.day = 31
    /\ time.month = 2 /\ time.day = 28

----------------------------------------------------------------------------
(* Calls issued without awaiting one another: properties *)

\* a call that changes the snapshot (not the early return of advanceTime or
\* of initializeTimeState)
Mutation(c) == c.op \in {"advance", "setTime"} /\ ~(c.op = "advance" /\ IsNoOp(c.minutes))

\* a mutation has computed its new snapshot and its commit has not settled
Uncommitted(c) == Mutation(c) /\ c.pc = "awaitSave"

\* C3: mutations run one after the other: no mutation reads the current
\* snapshot while an earlier one has computed its snapshot and not yet
\* finished committing it.
C3_MutationsSerialized ==
    [][(Len(calls') = Len(calls) + 1 /\ Mutation(calls'[Len(calls')]))
          => \A j \in 1..Len(calls) : ~Uncommitted(calls[j])]_vars

TimeAdvancedFor(i) ==
    \E e \in emitted : /\ e.event = "timeAdvanced"
                       /\ e.call = i
                       /\ e.minutesElapsed = calls[i].minutes

NonSilentAdvance(i) ==
    /\ i \in 1..Len(calls)
    /\ calls[i].op = "advance"
    /\ ~calls[i].silent
    /\ calls[i].minutes > 0

\* C7: every non-silent advance(m), m > 0, eventually emits timeAdvanced with
\* minutesElapsed = m, also with later calls queued behind it and also when its
\* save fails (every save eventually settles).
C7_AdvanceAlwaysEmits ==
    \A i \in 1..MaxCalls : NonSilentAdvance(i) ~> TimeAdvancedFor(i)

\* an advance whose save failed while a later call was started before its
\* continuation ran, and which has emitted timeAdvanced
C7_Witness ==
    \E i \in 1..Len(calls) :
        /\ NonSilentAdvance(i)
        /\ ~calls[i].saveOk
        /\ i < Len(calls)
        /\ calls[i + 1].pc \in {"awaitSave", "resume"}
        /\ TimeAdvancedFor(i)

\* C8: a failed save of advance / setAbsolute is reported to the caller of that
\* operation: the call does not complete as a success.
C8_SaveFailureReported ==
    \A i \in 1..Len(calls) :
        (Mutation(calls[i]) /\ calls[i].pc = "done" /\ ~calls[i].saveOk)
            => calls[i].completion # "returned"

\* C9: every timeAdvanced notification carries before and after snapshots with
\* after = before + minutesElapsed in absolute minutes, as listeners receive it.
C9_PayloadConsistent ==
    \A e \in emitted :
        e.event = "timeAdvanced"
            => AbsMinutes(e.newTime) = AbsMinutes(e.oldTime) + e.minutesElapsed

\* a non-silent advance that crossed a day boundary and has not yet emitted its
\* notifications
CrossedDay(i) == NonSilentAdvance(i) /\ calls[i].dayAdvanced /\ calls[i].pc # "done"

\* the stored snapshot carries weather generated by a day-boundary handler, and
\* its celestialEvents and upcomingFestivals are the detector's and the
\* scheduler's results on that snapshot
Refreshed ==
    /\ stored # 0
    /\ heap[stored].weather[1] = "newDay"
    /\ heap[stored].celestialEvents = checkCelestialEvents(heap[stored])
    /\ heap[stored].upcomingFestivals = getUpcomingFestivals(heap[stored], FESTIVAL_HORIZON)

\* C10: after a non-silent advance that crosses a day boundary, eventually the
\* snapshot's weather is regenerated and its celestialEvents and
\* upcomingFestivals equal the detector's and scheduler's results on it.
C10_DayBoundaryRefreshes ==
    \A i \in 1..MaxCalls : CrossedDay(i) ~> Refreshed

----------------------------------------------------------------------------
(* Narrative duration estimator (time-engine.js) *)

\* the longest text, in phrases, that SpecEstimate hands to the estimator
MaxPhrases == 3

Rule(type, value, target, priority) ==
    [type |-> type, value |-> value, target |-> target, priority |-> priority]

\* DURATION_PATTERNS, in table order. `value` is the factor of an extracted
\* number (hours, minutes, days), the minutes of a fixed rule or the estimate
\* of a scene rule.
DURATION_PATTERNS == <<
    Rule("hours",   60,   "", 10),          \*  1  (\d+) hours? (later|pass|have passed)
    Rule("minutes", 1,    "", 10),          \*  2  (\d+) minutes? (later|pass|have passed)
    Rule("days",    1440, "", 10),          \*  3  (\d+) days? (later|pass|have passed)
    Rule("fixed",   30,   "", 10),          \*  4  half (an? )?hour (later|pass)
    Rule("fixed",   60,   "", 10),          \*  5  (a|an|one) hour (later|pass)
    Rule("fixed",   1440, "", 10),          \*  6  (a|an|one) day (later|pass)
    Rule("fixed",   180,  "", 9),           \*  7  several hours? (later|pass)
    Rule("fixed",   120,  "", 9),           \*  8  (a )?few hours? (later|pass)
    Rule("fixed",   10,   "", 9),           \*  9  (a )?few minutes? (later|pass)
    Rule("skipTo",  0, "morning",  8),      \* 10  the next (morning|day)
    Rule("skipTo",  0, "evening",  8),      \* 11  the next evening
    Rule("skipTo",  0, "night",    8),      \* 12  the next night
    Rule("skipTo",  0, "morning",  8),      \* 13  the following (morning|day)
    Rule("skipTo",  0, "morning",  7),      \* 14  dawn breaks|sunrise|morning comes|wake (up|to)
    Rule("skipTo",  0, "evening",  7),      \* 15  night falls|sunset|dusk (falls|comes)|evening comes
    Rule("skipTo",  0, "midnight", 7),      \* 16  midnight|dead of night
    Rule("skipTo",  0, "noon",     7),      \* 17  noon|midday|middle of the day
    Rule("scene",   15,   "", 5),           \* 18  (fierce|brutal|long|extended) (combat|fight|battle)
    Rule("scene",   5,    "", 4),           \* 19  combat|fight|battle|attack|clash|skirmish
    Rule("scene",   480,  "", 6),           \* 20  long rest|sleep|camp for the night|...
    Rule("scene",   60,   "", 5),           \* 21  short rest|breather|...
    Rule("scene",   120,  "", 4),           \* 22  travel|journey|walk|ride|march|trek|make (your|their) way
    Rule("scene",   45,   "", 5),           \* 23  long (conversation|discussion|talk)
    Rule("scene",   15,   "", 4),           \* 24  conversation|talk|discuss|speak|chat
    Rule("scene",   45,   "", 4),           \* 25  meal|breakfast|lunch|dinner|supper|feast|banquet
    Rule("scene",   15,   "", 5),           \* 26  quick (meal|bite|snack)
    Rule("scene",   30,   "", 4),           \* 27  shop|browse|merchant|store|market|bazaar|trade
    Rule("scene",   20,   "", 4),           \* 28  search|examine|investigate|look around|explore|scout
    Rule("scene",   60,   "", 4),           \* 29  train|practice|spar|exercise|drill
    Rule("scene",   60,   "", 4),           \* 30  study|read|research|learn
    Rule("scene",   120,  "", 4),           \* 31  craft|forge|brew|create|make
    Rule("scene",   30,   "", 4),           \* 32  meditate|pray|ritual|ceremony
    Rule("scene",   30,   "", 3) >>         \* 33  wait|waiting|bide (your|their) time

\* A text is a sequence of sentences. Each sentence of the vocabulary is given
\* with what String.prototype.match finds in it: the rules whose pattern
\* matches somewhere in the sentence, and the digits that (\d+) captures.
Phrase(words, rules, number) == [words |-> words, rules |-> rules, number |-> number]

PHRASES == <<
    Phrase("Hello there.",              {},       0),
    Phrase("3 hours later.",            {1},      3),
    Phrase("0 hours later.",            {1},      0),
    Phrase("45 minutes pass.",          {2},      45),
    Phrase("Half an hour later.",       {4, 5},   0),
    Phrase("Several hours later.",      {7},      0),
    Phrase("The next morning.",         {10},     0),
    Phrase("Midnight.",                 {16},     0),
    Phrase("A fierce battle.",          {18, 19}, 0),
    Phrase("You take a long rest.",     {20},     0),
    Phrase("A long conversation.",      {23, 24}, 0),
    Phrase("You make your way north.",  {22, 31}, 0),
    Phrase("You wait.",                 {33},     0) >>

\* the texts handed to the estimator: up to MaxPhrases different sentences in
\* any order; the empty sequence is the empty string
Texts ==
    UNION { { t \in [1..n -> 1..Len(PHRASES)] : \A i, j \in 1..n : i # j => t[i] # t[j] }
            : n \in 0..MaxPhrases }

\* responseText.match(p.pattern): is there a match, and its first capture
matches(text, rule) == \E i \in 1..Len(text) : rule \in PHRASES[text[i]].rules

capture(text, rule) ==
    LET first == CHOOSE i \in 1..Len(text) :
                    /\ rule \in PHRASES[text[i]].rules
                    /\ \A j \in 1..(i - 1) : rule \notin PHRASES[text[j]].rules
    IN  PHRASES[text[first]].number

\* the estimates of the scene entries of detectedTypes
sceneEstimates(detectedTypes) ==
    { DURATION_PATTERNS[detectedTypes[i]].value :
        i \in { k \in 1..Len(detectedTypes) :
                  DURATION_PATTERNS[detectedTypes[k]].type = "scene" } }

\* `Math.max(...sceneEstimates.map(d => d.estimate))`
sumOfEstimates(estimates) ==
    LET sum[S \in SUBSET estimates] ==
            IF S = {} THEN 0
            ELSE LET e == CHOOSE x \in S : TRUE IN e + sum[S \ {e}]
    IN  sum[estimates]
maxOfEstimates(estimates) == CHOOSE e \in estimates : \A other \in estimates : other <= e

\* `if (p.priority < highestPriority) continue;`
outrankedNever(priority, highestPriority) == FALSE
outranked(priority, highestPriority) == priority < highestPriority

\* `if (!responseText)`: the empty string (null and undefined behave alike)
noResponseTextNever(text) == FALSE
noResponseText(text) == text = <<>>

\* One turn of `for (const p of DURATION_PATTERNS)`: acc is the result being
\* built together with highestPriority
scanRule(text, acc, rule) ==
    LET p == DURATION_PATTERNS[rule]
    IN  IF ~matches(text, rule) THEN acc
        ELSE IF outranked(p.priority, acc.highestPriority) THEN acc
        ELSE IF p.type \in {"hours", "minutes", "days"}
        THEN [acc EXCEPT !.minutes = capture(text, rule) * p.value,
                         !.confidence = "high",
                         !.detectedTypes = <<rule>>,
                         !.highestPriority = p.priority]
        ELSE IF p.type = "fixed"
        THEN [acc EXCEPT !.minutes = p.value,
                         !.confidence = "high",
                         !.detectedTypes = <<rule>>,
                         !.highestPriority = p.priority]
        ELSE IF p.type = "skipTo"
        THEN [acc EXCEPT !.skipTo = p.target,
                         !.confidence = "high",
                         !.detectedTypes = <<rule>>,
                         !.highestPriority = p.priority]
        ELSE [acc EXCEPT !.detectedTypes = Append(@, rule),
                         !.confidence = IF @ # "high" THEN "medium" ELSE @]

\* estimateSceneDuration(responseText)
estimateSceneDuration(text) ==
    IF noResponseText(text)
    THEN [minutes |-> 0, confidence |-> "none", detectedTypes |-> <<>>,
          skipTo |-> "undefined"]
    ELSE LET scan[n \in 0..Len(DURATION_PATTERNS)] ==
                 IF n = 0
                 THEN [minutes |-> 0, confidence |-> "low", detectedTypes |-> <<>>,
                       skipTo |-> "null", highestPriority |-> 0]
                 ELSE scanRule(text, scan[n - 1], n)
             r  == scan[Len(DURATION_PATTERNS)]
             m1 == IF /\ r.confidence # "high"
                      /\ Len(r.detectedTypes) > 0
                      /\ r.skipTo = "null"
                      /\ sceneEstimates(r.detectedTypes) # {}
                   THEN maxOfEstimates(sceneEstimates(r.detectedTypes))
                   ELSE r.minutes
             m2 == IF m1 = 0 /\ r.skipTo = "null" /\ r.confidence = "low" THEN 3 ELSE m1
         IN  [minutes |-> m2, confidence |-> r.confidence,
              detectedTypes |-> r.detectedTypes, skipTo |-> r.skipTo]

----------------------------------------------------------------------------
(* SpecEstimate: the estimator applied to a text *)

InitEstimate ==
    /\ time = DefaultTime
    /\ last \in { [op |-> "message", text |-> t] : t \in Texts }
    /\ heap = <<>>
    /\ stored = 0
    /\ calls = <<>>
    /\ mutex = <<>>
    /\ saving = FALSE
    /\ emitted = {}
    /\ handlers = <<>>
    /\ requireDefined = TRUE

\* onAIResponse: `const estimation = estimateSceneDuration(message)`
Estimate ==
    /\ last.op = "message"
    /\ last' = [op |-> "estimate", text |-> last.text,
                completion |-> "returned",
                result |-> estimateSceneDuration(last.text)]
    /\ UNCHANGED <<time, asyncVars>>

SpecEstimate == InitEstimate /\ [][Estimate]_vars

----------------------------------------------------------------------------
(* SpecSkip: "skip to" a period of the day (time-engine.js, index.js) *)

SKIP_TARGETS == {"morning", "noon", "evening", "night", "midnight"}

\* calculateSkipToMinutes: the switch over the target
targetHour(target) ==
    CASE target = "morning"  -> 7
      [] target = "noon"     -> 12
      [] target = "evening"  -> 18
      [] target = "night"    -> 21
      [] target = "midnight" -> 0

\* `if (hoursToSkip <= 0) hoursToSkip += 24`
rollsToNextDayIfNegative(hoursToSkip) == hoursToSkip < 0
rollsToNextDay(hoursToSkip) == hoursToSkip <= 0

\* calculateSkipToMinutes(currentTime, target)
calculateSkipToMinutes(currentTime, target) ==
    IF target \notin SKIP_TARGETS THEN 0
    ELSE LET hoursToSkip == targetHour(target) - currentTime.hour
         IN  (IF rollsToNextDay(hoursToSkip) THEN hoursToSkip + 24 ELSE hoursToSkip) * 60
                - currentTime.minute

\* the clocks the skip starts from: every minute of a day in mid-month, of the
\* last day of a 30-day month and of the last day of the year
SkipStartDates == { <<7, 14>>, <<9, 30>>, <<12, 29>> }

InitSkip ==
    /\ time \in { [year |-> DefaultTime.year, month |-> date[1], day |-> date[2],
                   hour |-> h, minute |-> m] :
                  date \in SkipStartDates, h \in 0..23, m \in 0..59 }
    /\ last = NoCall
    /\ heap = <<>>
    /\ stored = 0
    /\ calls = <<>>
    /\ mutex = <<>>
    /\ saving = FALSE
    /\ emitted = {}
    /\ handlers = <<>>
    /\ requireDefined = TRUE

\* onAIResponse with estimation.skipTo = target:
\* `minutes = calculateSkipToMinutes(state, estimation.skipTo); await advanceTime(minutes)`
SkipTo(target) ==
    LET minutes == calculateSkipToMinutes(time, target)
    IN  /\ IF IsNoOp(minutes)
           THEN /\ time' = time
                /\ last' = [op |-> "skipTo", target |-> target, minutes |-> minutes,
                            silent |-> FALSE, newTime |-> NoPartial, before |-> time,
                            completion |-> "returned", events |-> <<>>]
           ELSE LET r == cascade(time, minutes)
                IN  /\ r.time.year <= MaxYear
                    /\ time' = r.time
                    /\ last' = [op |-> "skipTo", target |-> target, minutes |-> minutes,
                                silent |-> FALSE, newTime |-> NoPartial, before |-> time,
                                completion |-> "returned",
                                events |-> advanceEvents(r, FALSE)]
        /\ UNCHANGED asyncVars

Skip == \E target \in SKIP_TARGETS : SkipTo(target)

SpecSkip == InitSkip /\ [][Skip]_vars

----------------------------------------------------------------------------
(* SpecMoon: the moons over a run of one-day steps (time-engine.js) *)

\* the number of one-day steps SpecMoon takes: two cycles of Lunara and a day
MaxDays == 57

\* The time-state objects the run starts from: a new game's calendar with
\* Lunara on any day of its cycle and the Veil at the start or in the middle
\* of its own, each with the phase updateMoonPhases gives that day.
MoonStartStates ==
    { [DefaultState EXCEPT
          !.moons = [lunara |-> [dayInCycle |-> l, phase |-> phaseOf(l, LUNARA_CYCLE)],
                     veil   |-> [dayInCycle |-> v, phase |-> phaseOf(v, VEIL_CYCLE)]]] :
      l \in 0..(LUNARA_CYCLE - 1), v \in {0, VEIL_CYCLE \div 2} }

\* In SpecMoon `time` is the whole time-state object and `last` the run so
\* far: Lunara's dayInCycle and phase on every day of the run.
InitMoon ==
    /\ time \in MoonStartStates
    /\ last = [op |-> "days", completion |-> "returned", lunara |-> <<time.moons.lunara>>]
    /\ heap = <<>>
    /\ stored = 0
    /\ calls = <<>>
    /\ mutex = <<>>
    /\ saving = FALSE
    /\ emitted = {}
    /\ handlers = <<>>
    /\ requireDefined = TRUE

\* await advanceTime(1440): the calendar cascade, then
\* `if (dayAdvanced) updateMoonPhases(state)`
OneDay ==
    /\ Len(last.lunara) <= MaxDays
    /\ LET r  == cascade(calendarOf(time), 1440)
           s1 == withCalendar(time, r.time)
           s2 == IF r.dayAdvanced
                 THEN [s1 EXCEPT !.moons = updateMoonPhases(s1.moons)]
                 ELSE s1
       IN  /\ time' = s2
           /\ last' = [last EXCEPT !.lunara = Append(@, s2.moons.lunara)]
    /\ UNCHANGED asyncVars

SpecMoon == InitMoon /\ [][OneDay]_vars

----------------------------------------------------------------------------
(* SpecCelestial: the celestial event detector on the states of a game *)

\* the moons after k calls of updateMoonPhases on a new game's moons
moonsAfter(k) ==
    LET l == (DefaultMoons.lunara.dayInCycle + k) % LUNARA_CYCLE
        v == (DefaultMoons.veil.dayInCycle + k) % VEIL_CYCLE
    IN  [lunara |-> [dayInCycle |-> l, phase |-> phaseOf(l, LUNARA_CYCLE)],
         veil   |-> [dayInCycle |-> v, phase |-> phaseOf(v, VEIL_CYCLE)]]

\* <<month, day>>: the default date and the days around the Starfall window
CelestialDates == { <<7, 14>>, <<8, 9>>, <<8, 10>>, <<8, 15>>, <<8, 16>> }

\* Every pair of moon days a game reaches (the two cycles step together, so
\* the pairs repeat after at most LUNARA_CYCLE * VEIL_CYCLE steps), on each of
\* the dates: setTime moves the date freely.
CelestialStates ==
    { [DefaultState EXCEPT !.month = date[1], !.day = date[2], !.moons = moonsAfter(k)] :
      date \in CelestialDates, k \in 0..(LUNARA_CYCLE * VEIL_CYCLE - 1) }

InitCelestial ==
    /\ time \in CelestialStates
    /\ last = NoCall
    /\ heap = <<>>
    /\ stored = 0
    /\ calls = <<>>
    /\ mutex = <<>>
    /\ saving = FALSE
    /\ emitted = {}
    /\ handlers = <<>>
    /\ requireDefined = TRUE

\* checkCelestialEvents(timeState)
Detect ==
    /\ last.op = "none"
    /\ last' = [op |-> "checkCelestialEvents", completion |-> "returned",
                activeEvents |-> checkCelestialEvents(time)]
    /\ UNCHANGED << time, asyncVars >>

SpecCelestial == InitCelestial /\ [][Detect]_vars

----------------------------------------------------------------------------
(* SpecFestivals: the festival scheduler on the dates of a game *)

\* getCurrentFestival: `currentDay >= festival.day &&
\* currentDay < festival.day + festival.duration`
duringFestivalInclusive(day, festival) ==
    day >= festival.day /\ day <= festival.day + festival.duration
duringFestival(day, festival) ==
    day >= festival.day /\ day < festival.day + festival.duration

\* getCurrentFestival(timeState): the first festival of the table that the date
\* falls in, as a one-element sequence, or << >> for null
getCurrentFestival(s) ==
    LET current == { i \in 1..Len(FESTIVALS) :
                        /\ FESTIVALS[i].month = s.month
                        /\ duringFestival(s.day, FESTIVALS[i]) }
    IN  IF current = {} THEN << >>
        ELSE LET i == CHOOSE i \in current : \A j \in current : i <= j
             IN  << [name |-> FESTIVALS[i].name,
                     dayOfFestival |-> s.day - FESTIVALS[i].day + 1,
                     isLastDay |-> s.day = FESTIVALS[i].day + FESTIVALS[i].duration - 1] >>

\* The dates of the last two years of the model: every day of every month,
\* and the two dates past the end of a 30-day month that advanceTime reaches
\* from the default date (79 and 110 days after 7/14).
FestivalDates ==
    { <<y, m, d>> \in ((MaxYear - 1)..MaxYear) \X (1..12) \X (1..31) :
         d <= getMonthLength(m, y) \/ (m \in {9, 10} /\ d = 31) }

\* the look-ahead of updateCelestialState, the default of the parameter, none, and a year
HorizonDays == { 0, FESTIVAL_HORIZON, 30, 365 }

InitFestivals ==
    /\ time \in { [DefaultState EXCEPT !.year = date[1], !.month = date[2], !.day = date[3]] :
                  date \in FestivalDates }
    /\ last = NoCall
    /\ heap = <<>>
    /\ stored = 0
    /\ calls = <<>>
    /\ mutex = <<>>
    /\ saving = FALSE
    /\ emitted = {}
    /\ handlers = <<>>
    /\ requireDefined \in BOOLEAN

\* getUpcomingFestivals(timeState, daysAhead): the sorted entries, or the
\* ReferenceError of getDaysUntilDate's require where the host defines none
Upcoming(daysAhead) ==
    /\ last.op = "none"
    /\ last' = IF callsRequire(time) /\ ~requireDefined
               THEN [op |-> "getUpcomingFestivals", daysAhead |-> daysAhead,
                     completion |-> "ReferenceError", upcoming |-> << >>]
               ELSE [op |-> "getUpcomingFestivals", daysAhead |-> daysAhead,
                     completion |-> "returned",
                     upcoming |-> getUpcomingFestivals(time, daysAhead)]
    /\ UNCHANGED << time, asyncVars >>

\* getCurrentFestival(timeState)
Current ==
    /\ last.op = "none"
    /\ last' = [op |-> "getCurrentFestival", completion |-> "returned",
                current |-> getCurrentFestival(time)]
    /\ UNCHANGED << time, asyncVars >>

Festivals ==
    \/ \E daysAhead \in HorizonDays : Upcoming(daysAhead)
    \/ Current

SpecFestivals == InitFestivals /\ [][Festivals]_vars

----------------------------------------------------------------------------
(* Weather generation (weather-generator.js) *)

\* WEATHER_TABLES[season].conditions: `chance` is a cumulative percentage
WEATHER_TABLES ==
    [winter |->
      << [condition |-> "clear", chance |-> 15],
         [condition |-> "partly_cloudy", chance |-> 25],
         [condition |-> "cloudy", chance |-> 45],
         [condition |-> "foggy", chance |-> 50],
         [condition |-> "light_snow", chance |-> 65],
         [condition |-> "snow", chance |-> 80],
         [condition |-> "heavy_snow", chance |-> 90],
         [condition |-> "blizzard", chance |-> 95],
         [condition |-> "rain", chance |-> 100] >>,
     spring |->
      << [condition |-> "clear", chance |-> 25],
         [condition |-> "partly_cloudy", chance |-> 45],
         [condition |-> "cloudy", chance |-> 60],
         [condition |-> "misty", chance |-> 70],
         [condition |-> "light_rain", chance |-> 85],
         [condition |-> "rain", chance |-> 95],
         [condition |-> "thunderstorm", chance |-> 100] >>,
     summer |->
      << [condition |-> "clear", chance |-> 45],
         [condition |-> "partly_cloudy", chance |-> 65],
         [condition |-> "cloudy", chance |-> 75],
         [condition |-> "light_rain", chance |-> 85],
         [condition |-> "thunderstorm", chance |-> 95],
         [condition |-> "heavy_rain", chance |-> 100] >>,
     autumn |->
      << [condition |-> "clear", chance |-> 25],
         [condition |-> "partly_cloudy", chance |-> 45],
         [condition |-> "cloudy", chance |-> 65],
         [condition |-> "foggy", chance |-> 75],
         [condition |-> "misty", chance |-> 82],
         [condition |-> "light_rain", chance |-> 92],
         [condition |-> "rain", chance |-> 100] >>]

SEASONS == DOMAIN WEATHER_TABLES

\* REGION_MODIFIERS[regionType].conditions, the multipliers in tenths
REGION_MODIFIERS ==
    [coastal |-> << <<"foggy", 15>>, <<"misty", 13>>, <<"rain", 12>> >>,
     mountain |-> << <<"snow", 15>>, <<"heavy_snow", 15>>, <<"clear", 12>> >>,
     desert |-> << <<"clear", 15>>, <<"dust_storm", 20>>, <<"rain", 3>> >>,
     forest |-> << <<"foggy", 12>>, <<"misty", 13>>, <<"rain", 11>> >>,
     swamp |-> << <<"foggy", 20>>, <<"misty", 15>>, <<"rain", 13>>, <<"clear", 6>> >>,
     plains |-> << <<"clear", 11>>, <<"thunderstorm", 12>> >>,
     tundra |-> << <<"snow", 15>>, <<"blizzard", 20>>, <<"clear", 7>> >>,
     default |-> <<  >>]

REGION_TYPES == DOMAIN REGION_MODIFIERS

\* `modifiers[entry[key]] || 1`, in tenths
modifierOf(regionType, condition) ==
    LET mods == REGION_MODIFIERS[regionType]
    IN  IF \E i \in 1..Len(mods) : mods[i][1] = condition
        THEN (CHOOSE m \in { mods[i] : i \in 1..Len(mods) } : m[1] = condition)[2]
        ELSE 10

\* rollFromTable: the adjusted table, `adjustedChance: entry.chance * mod`,
\* sorted by normalizedChance = adjustedChance / maxChance * 100 (the order of
\* adjustedChance; the sort is stable). adjustedChance is in tenths.
adjustedTable(season, regionType) ==
    LET table == WEATHER_TABLES[season]
        adj   == [i \in 1..Len(table) |->
                     table[i].chance * modifierOf(regionType, table[i].condition)]
        place == [i \in 1..Len(table) |->
                     Cardinality({j \in 1..Len(table) :
                                     adj[j] < adj[i] \/ (adj[j] = adj[i] /\ j < i)}) + 1]
    IN  [p \in 1..Len(table) |->
            LET i == CHOOSE i \in 1..Len(table) : place[i] = p
            IN  [condition |-> table[i].condition, adjustedChance |-> adj[i]]]

\* the adjusted tables, computed once
ADJUSTED_TABLES ==
    [season \in SEASONS, regionType \in REGION_TYPES |-> adjustedTable(season, regionType)]

\* `Math.max(...adjustedTable.map(e => e.adjustedChance))`: the last of the sorted table
maxChance(table) == table[Len(table)].adjustedChance

\* getSimilarConditions(condition): the first group that holds the condition
SIMILAR_GROUPS ==
    << << "clear", "partly_cloudy" >>,
       << "partly_cloudy", "cloudy", "misty" >>,
       << "light_rain", "rain", "heavy_rain", "thunderstorm" >>,
       << "light_snow", "snow", "heavy_snow", "blizzard" >>,
       << "foggy", "misty", "cloudy" >> >>

includes(members, condition) == \E i \in 1..Len(members) : members[i] = condition

getSimilarConditions(condition) ==
    IF \E g \in 1..Len(SIMILAR_GROUPS) : includes(SIMILAR_GROUPS[g], condition)
    THEN SIMILAR_GROUPS[CHOOSE g \in 1..Len(SIMILAR_GROUPS) :
                           /\ includes(SIMILAR_GROUPS[g], condition)
                           /\ \A h \in 1..(g - 1) : ~includes(SIMILAR_GROUPS[h], condition)]
    ELSE << condition >>

\* The three values of Math.random() a roll can take, each on a grid of equal
\* cells: the continuity test in fifths, the pick in twelfths (every group
\* length divides 12), the roll in percents (a roll lies inside its percent).
ContinuityDraws == 0..4
PickDraws == 0..11
RollDraws == 0..99

\* `Math.random() < 0.4`, on fifths
continuityBonusAlways(u) == TRUE
continuityBonus(u) == u < 2

\* `Math.floor(Math.random() * similarConditions.length)`, on twelfths, 1-indexed
pickOf(similar, u) == similar[((u * Len(similar)) \div 12) + 1]

\* `roll <= entry.max` with max = adjustedChance / maxChance * 100 and roll in
\* the middle of percent r
rollWithin(r, entry, table) ==
    (2 * r + 1) * maxChance(table) <= 200 * entry.adjustedChance

\* `for (const entry of adjustedTable) if (roll <= entry.max) return entry[key]`
normalRoll(table, r) ==
    IF \E i \in 1..Len(table) : rollWithin(r, table[i], table)
    THEN table[CHOOSE i \in 1..Len(table) :
                  /\ rollWithin(r, table[i], table)
                  /\ \A j \in 1..(i - 1) : ~rollWithin(r, table[j], table)].condition
    ELSE table[Len(table)].condition

\* rollFromTable(table.conditions, 'condition', regionMod.conditions, previous)
\* on the adjusted table; previous is "null" when there is none
rollFromTable(table, previous, draws) ==
    IF previous # "null" /\ continuityBonus(draws[1])
    THEN LET pick == pickOf(getSimilarConditions(previous), draws[2])
         IN  IF \E i \in 1..Len(table) : table[i].condition = pick
             THEN pick
             ELSE normalRoll(table, draws[3])
    ELSE normalRoll(table, draws[3])

\* generateWeather(timeState, regionType): the new `current` condition
generateWeather(s, regionType, draws) ==
    rollFromTable(ADJUSTED_TABLES[s.season, regionType], s.weather, draws)

----------------------------------------------------------------------------
(* SpecWeather: one generation from every season, region and previous weather *)

\* every condition of the season tables
CONDITIONS ==
    UNION { { WEATHER_TABLES[season][i].condition : i \in 1..Len(WEATHER_TABLES[season]) } :
            season \in SEASONS }

\* the regions of the runs: the unmodified table, and two regions whose
\* modifiers reorder the tables
WeatherRegions == { "default", "coastal", "tundra" }

\* In SpecWeather `time` is the part of the time state generateWeather reads:
\* the season, the previous weather's `current` (any condition an earlier
\* generation left, in any season, or none) and the region of the settings.
InitWeather ==
    /\ time \in [season : SEASONS, weather : CONDITIONS \cup {"null"}, regionType : WeatherRegions]
    /\ last = NoCall
    /\ heap = <<>>
    /\ stored = 0
    /\ calls = <<>>
    /\ mutex = <<>>
    /\ saving = FALSE
    /\ emitted = {}
    /\ handlers = <<>>
    /\ requireDefined = TRUE

\* generateWeather(timeState, settings.regionType) for one outcome of its draws
Generate(draws) ==
    /\ last.op = "none"
    /\ last' = [op |-> "generateWeather", completion |-> "returned",
                previous |-> time.weather,
                current |-> generateWeather(time, time.regionType, draws)]
    /\ UNCHANGED << time, asyncVars >>

allDraws == ContinuityDraws \X PickDraws \X RollDraws

\* the conditions similar to the previous one, as a set
family(previous) ==
    { getSimilarConditions(previous)[i] : i \in 1..Len(getSimilarConditions(previous)) }

\* generateWeather run from the same time state once for every outcome of its
\* draws, all equally likely: how many runs return a condition of the family
\* of the previous one
Sample ==
    /\ last.op = "none"
    /\ \E fam \in { family(time.weather) } :
       \E table \in { ADJUSTED_TABLES[time.season, time.regionType] } :
          last' = [op |-> "sample", completion |-> "returned",
                   previous |-> time.weather,
                   runs |-> Cardinality(allDraws),
                   sameFamily |->
                       Cardinality({ draws \in allDraws :
                                        rollFromTable(table, time.weather, draws) \in fam })]
    /\ UNCHANGED << time, asyncVars >>

Weather ==
    \/ \E draws \in allDraws : Generate(draws)
    \/ Sample

SpecWeather == InitWeather /\ [][Weather]_vars

----------------------------------------------------------------------------
(* SpecForecast: generateForecast, one day of the loop at a time *)

\* the days a forecast is asked for: generateWeather asks for 3
MaxForecastDays == 3

\* The outcomes of Math.random() the forecast runs are taken over: the
\* continuity test passed or failed, every index of a pick, a roll in every
\* twentieth of the scale.
ForecastDraws == {1, 3} \X {0, 3, 6, 9} \X { 5 * r + 2 : r \in 0..19 }

\* generateForecast: `previousCondition = condition`
nextSeedNull(condition) == "null"
nextSeed(condition) == condition

\* generateForecast(season, regionType, days) entered: `forecast = []`,
\* `previousCondition = null`, `i = 1`. `seeds` records the `previous`
\* argument of each call of rollFromTable.
InitForecast ==
    /\ time = DefaultTime
    /\ last \in { [op |-> "generateForecast", completion |-> "running",
                   season |-> season, regionType |-> regionType, days |-> days,
                   i |-> 1, previousCondition |-> "null",
                   forecast |-> << >>, seeds |-> << >>] :
                  season \in SEASONS, regionType \in WeatherRegions,
                  days \in 0..MaxForecastDays }
    /\ heap = <<>>
    /\ stored = 0
    /\ calls = <<>>
    /\ mutex = <<>>
    /\ saving = FALSE
    /\ emitted = {}
    /\ handlers = <<>>
    /\ requireDefined = TRUE

\* one pass of `for (let i = 1; i <= days; i++)`
ForecastDay(draws) ==
    /\ last.op = "generateForecast"
    /\ last.completion = "running"
    /\ last.i <= last.days
    /\ \E condition \in { rollFromTable(ADJUSTED_TABLES[last.season, last.regionType],
                                        last.previousCondition, draws) } :
          last' = [last EXCEPT
                      !.forecast = Append(@, [day |-> last.i, condition |-> condition]),
                      !.seeds = Append(@, last.previousCondition),
                      !.previousCondition = nextSeed(condition),
                      !.i = @ + 1]
    /\ UNCHANGED << time, asyncVars >>

\* the loop is left: `return forecast`
ForecastReturn ==
    /\ last.op = "generateForecast"
    /\ last.completion = "running"
    /\ last.i > last.days
    /\ last' = [last EXCEPT !.completion = "returned"]
    /\ UNCHANGED << time, asyncVars >>

Forecast ==
    \/ \E draws \in ForecastDraws : ForecastDay(draws)
    \/ ForecastReturn

SpecForecast == InitForecast /\ [][Forecast]_vars

----------------------------------------------------------------------------
(* SpecSetWeather: manual weather override (weather-generator.js) *)

\* WEATHER_CONDITIONS: the display data of each condition (icons by name)
WEATHER_CONDITIONS ==
    [clear         |-> [name |-> "Clear", icon |-> "sun", visibility |-> "excellent",
                        description |-> "Clear skies with good visibility"],
     partly_cloudy |-> [name |-> "Partly Cloudy", icon |-> "sun behind cloud",
                        visibility |-> "good",
                        description |-> "Scattered clouds, pleasant conditions"],
     cloudy        |-> [name |-> "Cloudy", icon |-> "cloud", visibility |-> "good",
                        description |-> "Overcast skies"],
     foggy         |-> [name |-> "Foggy", icon |-> "fog", visibility |-> "poor",
                        description |-> "Thick fog reduces visibility significantly"],
     misty         |-> [name |-> "Misty", icon |-> "foggy", visibility |-> "moderate",
                        description |-> "Light mist hangs in the air"],
     light_rain    |-> [name |-> "Light Rain", icon |-> "sun behind rain cloud",
                        visibility |-> "moderate",
                        description |-> "Light drizzle, slightly damp conditions"],
     rain          |-> [name |-> "Rain", icon |-> "cloud with rain", visibility |-> "moderate",
                        description |-> "Steady rain, wet conditions"],
     heavy_rain    |-> [name |-> "Heavy Rain", icon |-> "cloud with lightning and rain",
                        visibility |-> "poor",
                        description |-> "Torrential downpour, difficult conditions"],
     thunderstorm  |-> [name |-> "Thunderstorm", icon |-> "cloud with lightning and rain",
                        visibility |-> "poor",
                        description |-> "Thunder, lightning, and heavy rain"],
     light_snow    |-> [name |-> "Light Snow", icon |-> "cloud with snow",
                        visibility |-> "moderate",
                        description |-> "Light snowfall, cold conditions"],
     snow          |-> [name |-> "Snow", icon |-> "snowflake", visibility |-> "moderate",
                        description |-> "Steady snowfall, accumulating"],
     heavy_snow    |-> [name |-> "Heavy Snow", icon |-> "cloud with snow",
                        visibility |-> "poor",
                        description |-> "Blizzard conditions, dangerous"],
     blizzard      |-> [name |-> "Blizzard", icon |-> "snowflake", visibility |-> "very_poor",
                        description |-> "Severe blizzard, travel extremely dangerous"],
     hail          |-> [name |-> "Hail", icon |-> "cloud with snow", visibility |-> "moderate",
                        description |-> "Hailstones falling, seek shelter"],
     windy         |-> [name |-> "Windy", icon |-> "dash", visibility |-> "good",
                        description |-> "Strong winds, ranged attacks affected"],
     dust_storm    |-> [name |-> "Dust Storm", icon |-> "tornado", visibility |-> "very_poor",
                        description |-> "Choking dust, near-zero visibility"]]

\* the fields of a weather object built by generateWeather; a field an
\* object does not have reads "undefined", and the objects `effects`,
\* `modifiers` and `forecast` are named by the weather they were built for
WEATHER_FIELDS ==
    { "current", "currentName", "icon", "temperature", "temperatureName", "wind",
      "windName", "precipitation", "visibility", "description", "effects",
      "modifiers", "forecast" }

\* createDefaultTimeState().weather
DefaultWeather ==
    [f \in WEATHER_FIELDS |->
        CASE f = "current"       -> "clear"
          [] f = "temperature"   -> "cool"
          [] f = "wind"          -> "light breeze"
          [] f = "precipitation" -> "none"
          [] f = "visibility"    -> "good"
          [] f = "forecast"      -> "[]"
          [] OTHER               -> "undefined"]

\* a weather object of generateWeather: rain, cool, a light breeze
GeneratedRain ==
    [f \in WEATHER_FIELDS |->
        CASE f = "current"         -> "rain"
          [] f = "currentName"     -> WEATHER_CONDITIONS.rain.name
          [] f = "icon"            -> WEATHER_CONDITIONS.rain.icon
          [] f = "temperature"     -> "cool"
          [] f = "temperatureName" -> "Cool"
          [] f = "wind"            -> "light_breeze"
          [] f = "windName"        -> "Light Breeze"
          [] f = "precipitation"   -> "moderate"
          [] f = "visibility"      -> WEATHER_CONDITIONS.rain.visibility
          [] f = "description"     -> WEATHER_CONDITIONS.rain.description
          [] f = "effects"         -> "effects of rain, cool, light_breeze"
          [] f = "modifiers"       -> "modifiers of rain, light_breeze"
          [] f = "forecast"        -> "forecast of 3 days"]

\* the overrides setWeather is called with: each a partial weather object
WeatherOverrides ==
    { << >>,
      [current |-> "foggy"],
      [current |-> "blizzard", temperature |-> "freezing"],
      [current |-> "foggy", visibility |-> "excellent"],
      [current |-> "sandstorm"],
      [current |-> ""],
      [temperature |-> "hot"],
      [wind |-> "gale", precipitation |-> "heavy"],
      [description |-> "An eerie calm"] }

\* `{ ...state.weather, ...weatherOverride }`
mergedOverrideOnly(weather, weatherOverride) ==
    [f \in WEATHER_FIELDS |->
        IF f \in DOMAIN weatherOverride THEN weatherOverride[f] ELSE "undefined"]
merged(weather, weatherOverride) ==
    [f \in WEATHER_FIELDS |->
        IF f \in DOMAIN weatherOverride THEN weatherOverride[f] ELSE weather[f]]

\* `if (weatherOverride.current) { conditionData = WEATHER_CONDITIONS[...];
\* if (conditionData) ...`: a condition is given, not empty, and known
refreshesDisplay(weatherOverride) ==
    /\ "current" \in DOMAIN weatherOverride
    /\ weatherOverride.current # ""
    /\ weatherOverride.current \in DOMAIN WEATHER_CONDITIONS

\* the weather object setWeather leaves in the state
overriddenWeather(weather, weatherOverride) ==
    LET w == merged(weather, weatherOverride)
    IN  IF refreshesDisplay(weatherOverride)
        THEN LET conditionData == WEATHER_CONDITIONS[weatherOverride.current]
             IN  [w EXCEPT !["currentName"] = conditionData.name,
                           !["icon"] = conditionData.icon,
                           !["visibility"] = conditionData.visibility,
                           !["description"] = conditionData.description]
        ELSE w

\* The store holds no time state yet, or a time state with the default
\* weather or a generated one.
InitSetWeather ==
    /\ time = DefaultTime
    /\ last = NoCall
    /\ heap \in { << >> } \cup { << [DefaultState EXCEPT !.weather = w] >> :
                                  w \in { DefaultWeather, GeneratedRain } }
    /\ stored = Len(heap)
    /\ calls = <<>>
    /\ mutex = <<>>
    /\ saving = FALSE
    /\ emitted = {}
    /\ handlers = <<>>
    /\ requireDefined = TRUE

\* await setWeather(weatherOverride): null without a state; otherwise the
\* state's weather is replaced, the state is saved (whether the save succeeds
\* or not the object stays as it is) and weatherChanged is emitted
SetWeather(weatherOverride) ==
    /\ IF stored = 0
       THEN /\ last' = [op |-> "setWeather", completion |-> "returned",
                        weatherOverride |-> weatherOverride,
                        before |-> DefaultState, result |-> "null", events |-> << >>]
            /\ heap' = heap
       ELSE \E w \in { overriddenWeather(heap[stored].weather, weatherOverride) } :
              /\ heap' = [heap EXCEPT ![stored].weather = w]
              /\ last' = [op |-> "setWeather", completion |-> "returned",
                          weatherOverride |-> weatherOverride,
                          before |-> heap[stored], result |-> "weather",
                          events |-> << [event |-> "weatherChanged",
                                         oldWeather |-> heap[stored].weather,
                                         newWeather |-> w] >>]
    /\ UNCHANGED << time, stored, calls, mutex, saving, emitted, handlers, requireDefined >>

ManualWeather == \E weatherOverride \in WeatherOverrides : SetWeather(weatherOverride)

SpecSetWeather == InitSetWeather /\ [][ManualWeather]_vars

----------------------------------------------------------------------------
(* SpecSnapshot: the whole time state under awaited calls (time-engine.js) *)

DAYS_OF_WEEK ==
    << "Firstday", "Seconday", "Thirdsday", "Fourthday", "Fifthday", "Sixthday", "Restday" >>

\* calculateDayOfWeek(year, month, day): DAYS_OF_WEEK[totalDays % 7]
calculateDayOfWeek(year, month, day) == DAYS_OF_WEEK[(totalDays(year, month, day) % 7) + 1]

\* getMonthData(month): `MONTHS[month - 1] || MONTHS[0]`
getMonthData(month) == IF month \in 1..Len(MONTHS) THEN MONTHS[month] ELSE MONTHS[1]

\* updateDerivedValues(state)
updateDerivedValues(s) ==
    [s EXCEPT !.monthName = getMonthData(s.month).name,
              !.season = getMonthData(s.month).season,
              !.dayOfWeek = calculateDayOfWeek(s.year, s.month, s.day)]

\* createDefaultTimeState(): the calendar, the derived fields and the moons;
\* a moon has no _previousPhase until updateMoonPhases has run
DefaultSnapshot ==
    [year |-> 2847, month |-> 7, day |-> 14, hour |-> 18, minute |-> 0,
     monthName |-> "Harvest", season |-> "autumn", dayOfWeek |-> "Thirdsday",
     moons |-> [lunara |-> [phase |-> "waxing_gibbous", dayInCycle |-> 11,
                            daysUntilFull |-> 3, daysUntilNew |-> 17,
                            visible |-> TRUE, previousPhase |-> "undefined"],
                veil   |-> [phase |-> "new", dayInCycle |-> 0,
                            daysUntilFull |-> 17, daysUntilNew |-> 0,
                            visible |-> FALSE, previousPhase |-> "undefined"]]]

\* updateMoonPhases: `dayInCycle = (dayInCycle + 1) % CYCLE`
nextDayInCycleSkipping(dayInCycle, cycle) == (dayInCycle + 2) % cycle
nextDayInCycle(dayInCycle, cycle) == (dayInCycle + 1) % cycle

\* updateMoonPhases: `(CYCLE - dayInCycle) % CYCLE || CYCLE`
daysUntilNewOf(dayInCycle, cycle) ==
    IF (cycle - dayInCycle) % cycle = 0 THEN cycle ELSE (cycle - dayInCycle) % cycle

\* updateMoonPhases on one moon: its day, phase and countdowns, and at the end
\* of the function `_previousPhase = phase`. Only the Veil's `visible` is
\* assigned (`phase !== 'new'`); Lunara's field stands for "always visible".
stepMoon(moon, cycle, isVeil) ==
    LET d == nextDayInCycle(moon.dayInCycle, cycle)
    IN  [phase |-> phaseOf(d, cycle),
         dayInCycle |-> d,
         daysUntilFull |-> ((cycle \div 2) - d + cycle) % cycle,
         daysUntilNew |-> daysUntilNewOf(d, cycle),
         visible |-> IF isVeil THEN phaseOf(d, cycle) # "new" ELSE moon.visible,
         previousPhase |-> phaseOf(d, cycle)]

\* updateMoonPhases: `if (oldPhase && oldPhase !== phase)`
phaseChangedOrNot(oldPhase, phase) == oldPhase # "undefined"
phaseChanged(oldPhase, phase) == oldPhase # "undefined" /\ oldPhase # phase

\* the moonPhaseChanged events of one call of updateMoonPhases: Lunara's, then
\* the Veil's; oldPhase is the _previousPhase the last call left
moonEvents(old, new) ==
    (IF phaseChanged(old.lunara.previousPhase, new.lunara.phase)
     THEN << [event |-> "moonPhaseChanged", moon |-> "lunara",
              oldPhase |-> old.lunara.previousPhase, newPhase |-> new.lunara.phase] >>
     ELSE << >>)
    \o (IF phaseChanged(old.veil.previousPhase, new.veil.phase)
        THEN << [event |-> "moonPhaseChanged", moon |-> "veil",
                 oldPhase |-> old.veil.previousPhase, newPhase |-> new.veil.phase] >>
        ELSE << >>)

\* updateMoonPhases(state): the moons it leaves
trackedMoons(moons) ==
    [lunara |-> stepMoon(moons.lunara, LUNARA_CYCLE, FALSE),
     veil   |-> stepMoon(moons.veil, VEIL_CYCLE, TRUE)]

\* the events of advanceTime after its save, as records
advanceEventRecords(r, silent) ==
    [i \in 1..Len(advanceEvents(r, silent)) |-> [event |-> advanceEvents(r, silent)[i]]]

\* minutes passed to advanceTime: a negative value, half a day, three days
SnapshotAdvances == { 0 - 60, 720, 4320 }

\* setTime inputs: nothing, and the first day of month 8
SnapshotSetTimes == { NoPartial, Partial({"month", "day"}, 0, 8, 1, 0, 0) }

\* the days from the default date over which the runs are followed
MaxSnapshotDays == 20

NoSnapshotCall ==
    [op |-> "none", minutes |-> 0, silent |-> FALSE, newTime |-> NoPartial,
     completion |-> "returned", moonStepped |-> FALSE, events |-> << >>]

\* the state the store holds after first use: createDefaultTimeState()
InitSnapshot ==
    /\ time = DefaultSnapshot
    /\ last = NoSnapshotCall
    /\ heap = <<>>
    /\ stored = 0
    /\ calls = <<>>
    /\ mutex = <<>>
    /\ saving = FALSE
    /\ emitted = {}
    /\ handlers = <<>>
    /\ requireDefined = TRUE

withinHorizon(s) ==
    totalDays(s.year, s.month, s.day)
        <= totalDays(DefaultSnapshot.year, DefaultSnapshot.month, DefaultSnapshot.day)
              + MaxSnapshotDays

\* await advanceTime(minutes, {silent}), the save succeeding: the cascade,
\* updateDerivedValues, updateMoonPhases when a day was crossed (it emits its
\* events at once), the save, then the events of advanceTime unless silent
AdvanceSnapshot(minutes, silent) ==
    /\ IF IsNoOp(minutes)
       THEN /\ time' = time
            /\ last' = [op |-> "advanceTime", minutes |-> minutes, silent |-> silent,
                        newTime |-> NoPartial, completion |-> "returned",
                        moonStepped |-> FALSE, events |-> << >>]
       ELSE \E r \in { cascade(calendarOf(time), minutes) } :
            \E moons \in { IF r.dayAdvanced THEN trackedMoons(time.moons) ELSE time.moons } :
              /\ time' = [updateDerivedValues(withCalendar(time, r.time)) EXCEPT !.moons = moons]
              /\ withinHorizon(time')
              /\ last' = [op |-> "advanceTime", minutes |-> minutes, silent |-> silent,
                          newTime |-> NoPartial, completion |-> "returned",
                          moonStepped |-> r.dayAdvanced,
                          events |-> (IF r.dayAdvanced THEN moonEvents(time.moons, moons)
                                      ELSE << >>)
                                     \o advanceEventRecords(r, silent)]
    /\ UNCHANGED asyncVars

\* await setTime(newTime), the save succeeding: the fields and their clamps,
\* updateDerivedValues, updateMoonPhases, the save, then timeSet
SetSnapshot(newTime) ==
    /\ \E moons \in { trackedMoons(time.moons) } :
          /\ time' = [updateDerivedValues(
                         withCalendar(time, setTimeFields(calendarOf(time), newTime)))
                      EXCEPT !.moons = moons]
          /\ last' = [op |-> "setTime", minutes |-> 0, silent |-> FALSE,
                      newTime |-> newTime, completion |-> "returned",
                      moonStepped |-> TRUE,
                      events |-> moonEvents(time.moons, moons) \o << [event |-> "timeSet"] >>]
    /\ UNCHANGED asyncVars

SnapshotAdvance ==
    \E minutes \in SnapshotAdvances, silent \in BOOLEAN : AdvanceSnapshot(minutes, silent)
SnapshotSet == \E newTime \in SnapshotSetTimes : SetSnapshot(newTime)

SpecSnapshot == InitSnapshot /\ [][SnapshotAdvance \/ SnapshotSet]_vars

(* The domain store: registerDomain, unregisterDomain, setDomainState *)

\* In SpecStore `stored` is the module state of the store, a record of
\* _domainOwners and chatMetadata[CORE_META_KEY], and `mutex` holds the writes
\* chained on _saveMutex that have not run yet.

\* the writes that may be waiting on _saveMutex at one time
MaxPending == 1

\* 'time' is a key of DEFAULT_DOMAINS, 'quests' is not
STORE_DOMAINS == { "time", "quests" }
DEFAULT_DOMAINS == { "time" }
EXTENSIONS == { "vtc", "vmt" }
DOMAIN_DATA == { "a", "b" }

ownedByOtherNever(owner, extensionId) == FALSE

\* _domainOwners[domain] && _domainOwners[domain] !== extensionId
ownedByOther(owner, extensionId) == owner # "none" /\ owner # extensionId

\* registerDomain(domain, extensionId): the result and the registry afterwards
registerDomain(domainOwners, domain, extensionId) ==
    IF domain \notin DEFAULT_DOMAINS
    THEN [result |-> FALSE, domainOwners |-> domainOwners]
    ELSE IF ownedByOther(domainOwners[domain], extensionId)
         THEN [result |-> FALSE, domainOwners |-> domainOwners]
         ELSE [result |-> TRUE,
               domainOwners |-> [domainOwners EXCEPT ![domain] = extensionId]]

isDomainOwner(domainOwners, domain, extensionId) ==
    domainOwners[domain] = extensionId

NoStoreCall ==
    [op |-> "none", domain |-> "time", extensionId |-> "vtc", data |-> "null",
     result |-> FALSE]

\* nothing registered, every domain of DEFAULT_DOMAINS null
InitStore ==
    /\ time = DefaultTime
    /\ last = NoStoreCall
    /\ heap = << >>
    /\ stored = [domainOwners |-> [d \in STORE_DOMAINS |-> "none"],
                 fullState |-> [d \in STORE_DOMAINS |->
                                   IF d \in DEFAULT_DOMAINS THEN "null" ELSE "undefined"]]
    /\ calls = << >>
    /\ mutex = << >>
    /\ saving = FALSE
    /\ emitted = {}
    /\ handlers = << >>
    /\ requireDefined = TRUE

RegisterDomain(domain, extensionId) ==
    /\ \E r \in { registerDomain(stored.domainOwners, domain, extensionId) } :
          /\ stored' = [stored EXCEPT !.domainOwners = r.domainOwners]
          /\ last' = [op |-> "registerDomain", domain |-> domain,
                      extensionId |-> extensionId, data |-> "null",
                      result |-> r.result]
    /\ UNCHANGED <<time, heap, calls, mutex, saving, emitted, handlers, requireDefined>>

UnregisterDomain(domain, extensionId) ==
    /\ stored' = IF isDomainOwner(stored.domainOwners, domain, extensionId)
                 THEN [stored EXCEPT !.domainOwners[domain] = "none"]
                 ELSE stored
    /\ last' = [op |-> "unregisterDomain", domain |-> domain,
                extensionId |-> extensionId, data |-> "null", result |-> TRUE]
    /\ UNCHANGED <<time, heap, calls, mutex, saving, emitted, handlers, requireDefined>>

\* setDomainState(domain, data, extensionId) up to `return _saveMutex`: a
\* non-owner gets false at once; otherwise an unowned domain is registered
\* (which fails for an unknown domain, and the write is chained all the same)
SetDomainState(domain, data, extensionId) ==
    /\ IF ownedByOther(stored.domainOwners[domain], extensionId)
       THEN /\ last' = [op |-> "setDomainState", domain |-> domain,
                        extensionId |-> extensionId, data |-> data,
                        result |-> FALSE]
            /\ UNCHANGED <<stored, mutex>>
       ELSE /\ Len(mutex) < MaxPending
            /\ stored' = IF stored.domainOwners[domain] = "none"
                         THEN [stored EXCEPT !.domainOwners =
                                 registerDomain(@, domain, extensionId).domainOwners]
                         ELSE stored
            /\ mutex' = Append(mutex, [domain |-> domain, data |-> data,
                                       extensionId |-> extensionId])
            /\ last' = [op |-> "setDomainState", domain |-> domain,
                        extensionId |-> extensionId, data |-> data,
                        result |-> TRUE]
    /\ UNCHANGED <<time, heap, calls, saving, emitted, handlers, requireDefined>>

\* the oldest chained write runs: fullState[domain] = data, save, domainChanged
SaveJob ==
    /\ mutex # << >>
    /\ stored' = [stored EXCEPT !.fullState[Head(mutex).domain] = Head(mutex).data]
    /\ mutex' = Tail(mutex)
    /\ last' = [op |-> "job", domain |-> Head(mutex).domain,
                extensionId |-> Head(mutex).extensionId,
                data |-> Head(mutex).data, result |-> TRUE]
    /\ UNCHANGED <<time, heap, calls, saving, emitted, handlers, requireDefined>>

\* clearAllState(): chatMetadata[CORE_META_KEY] = { ...DEFAULT_DOMAINS }
ClearAllState ==
    /\ stored' = [stored EXCEPT !.fullState =
                     [d \in STORE_DOMAINS |->
                         IF d \in DEFAULT_DOMAINS THEN "null" ELSE "undefined"]]
    /\ last' = [op |-> "clearAllState", domain |-> "time", extensionId |-> "vtc",
                data |-> "null", result |-> TRUE]
    /\ UNCHANGED <<time, heap, calls, mutex, saving, emitted, handlers, requireDefined>>

Register == \E d \in STORE_DOMAINS, e \in EXTENSIONS : RegisterDomain(d, e)
Unregister == \E d \in STORE_DOMAINS, e \in EXTENSIONS : UnregisterDomain(d, e)
Write ==
    \E d \in STORE_DOMAINS, data \in DOMAIN_DATA, e \in EXTENSIONS :
        SetDomainState(d, data, e)

Store == Register \/ Unregister \/ Write \/ SaveJob \/ ClearAllState

SpecStore == InitStore /\ [][Store]_vars

-----------------------------------------------------------------------------

(* The event bus: on, once, emit, emitAsync *)

\* In SpecBus `handlers` is _listeners[event] for one event name, `calls` is
\* the stack of emit / emitAsync invocations whose loop is running (innermost
\* last), `mutex` holds the emitAsync invocations suspended at
\* `await Promise.all(promises)`, and `last` counts the invocations of each
\* callback.

\* the emit / emitAsync calls of one run, nested ones included
MaxEmits == 3

CALLBACKS == { "plain", "once" }
EMIT_KINDS == { "emit", "emitAsync" }

\* on(event, callback, options): the listener record pushed
listenerOf(callback, once) == [callback |-> callback, once |-> once]

RECURSIVE removeListeners(_, _)
\* for (const listener of toRemove) { idx = indexOf; if (idx > -1) splice }
removeListeners(listeners, toRemove) ==
    IF toRemove = << >> THEN listeners
    ELSE removeListeners(
            IF \E k \in 1..Len(listeners) : listeners[k] = Head(toRemove)
            THEN LET idx == CHOOSE k \in 1..Len(listeners) :
                               /\ listeners[k] = Head(toRemove)
                               /\ \A j \in 1..(k - 1) : listeners[j] # Head(toRemove)
                 IN  SubSeq(listeners, 1, idx - 1) \o
                     SubSeq(listeners, idx + 1, Len(listeners))
            ELSE listeners,
            Tail(toRemove))

\* _listeners[event].indexOf(...) on a deleted array throws
removalThrows(listeners, toRemove) == listeners = << >> /\ toRemove # << >>

NoBusCall ==
    [op |-> "none", invoked |-> [c \in CALLBACKS |-> 0], emits |-> 0,
     subscribed |-> {}, error |-> FALSE]

InitBus ==
    /\ time = DefaultTime
    /\ last = NoBusCall
    /\ heap = << >>
    /\ stored = 0
    /\ calls = << >>
    /\ mutex = << >>
    /\ saving = FALSE
    /\ emitted = {}
    /\ handlers = << >>
    /\ requireDefined = TRUE

busFrame == <<time, heap, stored, saving, emitted, requireDefined>>

\* on(event, plain) or once(event, once); each callback is subscribed one time
Subscribe(callback) ==
    /\ calls = << >>
    /\ callback \notin last.subscribed
    /\ handlers' = Append(handlers, listenerOf(callback, callback = "once"))
    /\ last' = [last EXCEPT !.op = "on", !.subscribed = @ \cup { callback },
                            !.error = FALSE]
    /\ UNCHANGED <<calls, mutex>>
    /\ UNCHANGED busFrame

\* emit(event, data) / emitAsync(event, data) up to the loop: from the top
\* level, or from inside a running callback
StartEmit(kind) ==
    /\ last.emits < MaxEmits
    /\ calls # << >> => calls[Len(calls)].inCallback
    /\ calls' = IF handlers = << >> THEN calls
                ELSE Append(calls, [kind |-> kind, listeners |-> handlers, i |-> 1,
                                    toRemove |-> << >>, inCallback |-> FALSE])
    /\ last' = [last EXCEPT !.op = kind, !.emits = @ + 1, !.error = FALSE]
    /\ UNCHANGED <<handlers, mutex>>
    /\ UNCHANGED busFrame

\* listener.callback(data) is entered
CallbackBegin ==
    /\ calls # << >>
    /\ LET f == calls[Len(calls)] IN
          /\ ~f.inCallback
          /\ f.i <= Len(f.listeners)
          /\ calls' = [calls EXCEPT ![Len(calls)].inCallback = TRUE]
          /\ last' = [last EXCEPT !.op = "callback",
                                  !.invoked[f.listeners[f.i].callback] = @ + 1,
                                  !.error = FALSE]
    /\ UNCHANGED <<handlers, mutex>>
    /\ UNCHANGED busFrame

\* the callback returns or throws; a one-time listener that returned is noted
CallbackEnd(throws) ==
    /\ calls # << >>
    /\ LET f == calls[Len(calls)] IN
          /\ f.inCallback
          /\ calls' = [calls EXCEPT ![Len(calls)] =
                         [f EXCEPT !.inCallback = FALSE, !.i = @ + 1,
                                   !.toRemove = IF ~throws /\ f.listeners[f.i].once
                                                THEN Append(@, f.listeners[f.i])
                                                ELSE @]]
          /\ last' = [last EXCEPT !.op = "return", !.error = throws]
    /\ UNCHANGED <<handlers, mutex>>
    /\ UNCHANGED busFrame

\* after the loop: emit removes its one-time listeners, emitAsync suspends at
\* `await Promise.all(promises)`
LoopEnd ==
    /\ calls # << >>
    /\ LET f == calls[Len(calls)] IN
          /\ ~f.inCallback
          /\ f.i > Len(f.listeners)
          /\ calls' = SubSeq(calls, 1, Len(calls) - 1)
          /\ IF f.kind = "emit"
             THEN /\ handlers' = removeListeners(handlers, f.toRemove)
                  /\ mutex' = mutex
                  /\ last' = [last EXCEPT !.op = "emitted",
                                !.error = removalThrows(handlers, f.toRemove)]
             ELSE /\ handlers' = handlers
                  /\ mutex' = Append(mutex, f)
                  /\ last' = [last EXCEPT !.op = "await", !.error = FALSE]
    /\ UNCHANGED busFrame

\* a suspended emitAsync resumes and removes its one-time listeners
ResumeEmitAsync(k) ==
    /\ calls = << >>
    /\ k \in 1..Len(mutex)
    /\ handlers' = removeListeners(handlers, mutex[k].toRemove)
    /\ mutex' = SubSeq(mutex, 1, k - 1) \o SubSeq(mutex, k + 1, Len(mutex))
    /\ last' = [last EXCEPT !.op = "emittedAsync",
                            !.error = removalThrows(handlers, mutex[k].toRemove)]
    /\ UNCHANGED calls
    /\ UNCHANGED busFrame

On == \E c \in CALLBACKS : Subscribe(c)
Emit == \E kind \in EMIT_KINDS : StartEmit(kind)
Return == \E throws \in BOOLEAN : CallbackEnd(throws)
ResumeAsyncEmit == \E k \in 1..MaxEmits : ResumeEmitAsync(k)

Bus == On \/ Emit \/ CallbackBegin \/ Return \/ LoopEnd \/ ResumeAsyncEmit

SpecBus == InitBus /\ [][Bus]_vars

-----------------------------------------------------------------------------

(* SpecDetector: checkCelestialEvents on incomplete states and broken rules *)

\* a moon of timeState.moons, or its absence
Moon(dayInCycle, cycle) ==
    [present |-> TRUE, dayInCycle |-> dayInCycle, phase |-> phaseOf(dayInCycle, cycle)]
NoMoon == [present |-> FALSE, dayInCycle |-> 0, phase |-> "undefined"]

DetectorLunaras == { NoMoon, Moon(0, LUNARA_CYCLE), Moon(11, LUNARA_CYCLE),
                     Moon(14, LUNARA_CYCLE) }
DetectorVeils == { NoMoon, Moon(0, VEIL_CYCLE), Moon(17, VEIL_CYCLE) }
DetectorDates == { <<7, 14>>, <<8, 9>>, <<8, 12>> }

\* `if (!lunara || !veil) return activeEvents;`
moonsMissing(lunara, veil) == ~lunara.present \/ ~veil.present

\* checkCelestialEvents(timeState) when the conditions of the rules in `broken`
\* throw: the thrown error is caught per rule and the rule is skipped
checkCelestialEventsCaught(lunara, veil, date, broken) ==
    IF moonsMissing(lunara, veil) THEN << >>
    ELSE SelectSeq(CELESTIAL_EVENT_IDS,
                   LAMBDA id : id \notin broken /\ eventCondition(id, lunara, veil, date))

InitDetector ==
    /\ time = DefaultTime
    /\ last \in { [op |-> "none", completion |-> "running",
                   lunara |-> l, veil |-> v,
                   date |-> [month |-> d[1], day |-> d[2]],
                   broken |-> b, activeEvents |-> << >>] :
                  l \in DetectorLunaras, v \in DetectorVeils, d \in DetectorDates,
                  b \in SUBSET { CELESTIAL_EVENT_IDS[i] : i \in 1..Len(CELESTIAL_EVENT_IDS) } }
    /\ heap = << >>
    /\ stored = 0
    /\ calls = << >>
    /\ mutex = << >>
    /\ saving = FALSE
    /\ emitted = {}
    /\ handlers = << >>
    /\ requireDefined = TRUE

\* checkCelestialEvents(timeState): no statement outside the try block can
\* throw for a timeState object, so the call always returns
DetectCaught ==
    /\ last.op = "none"
    /\ last' = [last EXCEPT !.op = "checkCelestialEvents",
                            !.completion = "returned",
                            !.activeEvents =
                                checkCelestialEventsCaught(last.lunara, last.veil,
                                                           last.date, last.broken)]
    /\ UNCHANGED << time, asyncVars >>

SpecDetector == InitDetector /\ [][DetectCaught]_vars

-----------------------------------------------------------------------------

(* SpecSession: queued writes and a change of chat *)

\* In SpecSession `stored` is [current, chatMetadata]: the chat that
\* _stContext belongs to and, per chat, chatMetadata[CORE_META_KEY].time, given
\* as the chat that the snapshot object was read or created in ("null" while
\* the chat has none). `mutex` holds the writes chained on _saveMutex, oldest
\* first, and `saving` is TRUE while the oldest awaits ctx.saveMetadata().

\* the writes chained on _saveMutex at one time, the running one included
MaxQueued == 2

CHATS == { "chatA", "chatB" }

\* `getDomainState(DOMAIN) || createDefaultTimeState()`: the chat the object
\* that a mutation works on comes from
snapshotOf(current, chatMetadata) ==
    IF chatMetadata[current] # "null" THEN chatMetadata[current] ELSE current

\* getFullState() inside the chained job: the metadata of the chat that is
\* current when the job runs
targetChat(current, job) == current

NoSessionCall == [op |-> "none", chat |-> "chatA", data |-> "null"]

InitSession ==
    /\ time = DefaultTime
    /\ last = NoSessionCall
    /\ heap = << >>
    /\ stored = [current |-> "chatA", chatMetadata |-> [c \in CHATS |-> "null"]]
    /\ calls = << >>
    /\ mutex = << >>
    /\ saving = FALSE
    /\ emitted = {}
    /\ handlers = << >>
    /\ requireDefined = TRUE

sessionFrame == <<time, heap, calls, emitted, handlers, requireDefined>>

\* advanceTime / setTime / setWeather up to `await setDomainState(...)`: the
\* snapshot of the current chat is mutated and its write is chained
RequestMutation ==
    /\ Len(mutex) < MaxQueued
    /\ \E data \in { snapshotOf(stored.current, stored.chatMetadata) } :
          /\ mutex' = Append(mutex, [data |-> data, requestedIn |-> stored.current])
          /\ last' = [op |-> "request", chat |-> stored.current, data |-> data]
    /\ UNCHANGED <<stored, saving>>
    /\ UNCHANGED sessionFrame

\* the oldest chained write starts: fullState = getFullState();
\* fullState[domain] = data; then it awaits saveMetadata
CommitBegin ==
    /\ mutex # << >>
    /\ ~saving
    /\ \E chat \in { targetChat(stored.current, Head(mutex)) } :
          /\ stored' = [stored EXCEPT !.chatMetadata[chat] = Head(mutex).data]
          /\ last' = [op |-> "commit", chat |-> chat, data |-> Head(mutex).data]
    /\ saving' = TRUE
    /\ UNCHANGED mutex
    /\ UNCHANGED sessionFrame

\* saveMetadata settles and the next chained write may run
CommitEnd ==
    /\ saving
    /\ saving' = FALSE
    /\ mutex' = Tail(mutex)
    /\ last' = [op |-> "saved", chat |-> stored.current, data |-> "null"]
    /\ UNCHANGED stored
    /\ UNCHANGED sessionFrame

\* CHAT_CHANGED: initCoreState(getContext()), then the time extension's
\* onChatChanged runs initializeTimeState, which chains the save of a default
\* snapshot when the new chat has none. The event is a task of its own: it
\* does not run while a chained write is ready to start.
ChatChanged(chat) ==
    /\ chat # stored.current
    /\ mutex = << >> \/ saving
    /\ stored' = [stored EXCEPT !.current = chat]
    /\ IF stored.chatMetadata[chat] = "null"
       THEN /\ Len(mutex) < MaxQueued
            /\ mutex' = Append(mutex, [data |-> chat, requestedIn |-> chat])
       ELSE mutex' = mutex
    /\ last' = [op |-> "chatChanged", chat |-> chat, data |-> "null"]
    /\ UNCHANGED saving
    /\ UNCHANGED sessionFrame

SwitchChat == \E chat \in CHATS : ChatChanged(chat)

Session == RequestMutation \/ CommitBegin \/ CommitEnd \/ SwitchChat

SpecSession == InitSession /\ [][Session]_vars

-----------------------------------------------------------------------------

----------------------------------------------------------------------------
(* SpecClimate: the three rolls of one generation, with the region's modifiers *)

\* WEATHER_TABLES[season].temperatures, << temp, chance >>
TEMPERATURE_TABLES ==
    [winter |-> << <<"freezing", 40>>, <<"cold", 85>>, <<"cool", 100>> >>,
     spring |-> << <<"cold", 10>>, <<"cool", 40>>, <<"mild", 80>>, <<"warm", 100>> >>,
     summer |-> << <<"mild", 10>>, <<"warm", 50>>, <<"hot", 85>>, <<"scorching", 100>> >>,
     autumn |-> << <<"cold", 15>>, <<"cool", 55>>, <<"mild", 85>>, <<"warm", 100>> >>]

\* WEATHER_TABLES[season].wind, << wind, chance >>
WIND_TABLES ==
    [winter |-> << <<"calm", 20>>, <<"light_breeze", 50>>, <<"moderate_wind", 75>>,
                   <<"strong_wind", 90>>, <<"gale", 100>> >>,
     spring |-> << <<"calm", 25>>, <<"light_breeze", 60>>, <<"moderate_wind", 85>>,
                   <<"strong_wind", 100>> >>,
     summer |-> << <<"calm", 35>>, <<"light_breeze", 70>>, <<"moderate_wind", 90>>,
                   <<"strong_wind", 100>> >>,
     autumn |-> << <<"calm", 20>>, <<"light_breeze", 50>>, <<"moderate_wind", 80>>,
                   <<"strong_wind", 95>>, <<"gale", 100>> >>]

\* REGION_MODIFIERS[regionType].temperatures, the multipliers in tenths
REGION_TEMPERATURES ==
    [coastal |-> << <<"hot", 8>>, <<"cold", 8>> >>,
     mountain |-> << <<"freezing", 15>>, <<"cold", 13>>, <<"hot", 5>> >>,
     desert |-> << <<"scorching", 15>>, <<"hot", 13>>, <<"freezing", 5>> >>,
     forest |-> << <<"hot", 9>>, <<"scorching", 7>> >>,
     swamp |-> << <<"hot", 12>> >>,
     plains |-> <<  >>,
     tundra |-> << <<"freezing", 20>>, <<"cold", 15>>, <<"warm", 2>>, <<"hot", 0>> >>,
     default |-> <<  >>]

\* REGION_MODIFIERS[regionType].wind, the multipliers in tenths
REGION_WIND ==
    [coastal |-> << <<"moderate_wind", 13>>, <<"strong_wind", 15>> >>,
     mountain |-> << <<"strong_wind", 15>>, <<"gale", 15>> >>,
     desert |-> << <<"calm", 7>>, <<"strong_wind", 12>> >>,
     forest |-> << <<"strong_wind", 7>>, <<"gale", 5>> >>,
     swamp |-> << <<"calm", 13>>, <<"strong_wind", 5>> >>,
     plains |-> << <<"strong_wind", 12>> >>,
     tundra |-> << <<"gale", 15>> >>,
     default |-> <<  >>]

\* `modifiers[entry[key]] || 1`, in tenths: an absent modifier and a modifier
\* of 0 are both falsy and both give 1
modifierOrOne(modifiers, value) ==
    LET listed == { modifiers[i] : i \in 1..Len(modifiers) }
    IN  IF \E m \in listed : m[1] = value /\ m[2] # 0
        THEN (CHOOSE m \in listed : m[1] = value)[2]
        ELSE 10

\* rollFromTable on a temperature or wind table: `adjustedChance: entry.chance
\* * mod`, sorted by normalizedChance (the order of adjustedChance; the sort is
\* stable). adjustedChance is in tenths.
adjustedEntries(table, modifiers) ==
    LET adj   == [i \in 1..Len(table) |-> table[i][2] * modifierOrOne(modifiers, table[i][1])]
        place == [i \in 1..Len(table) |->
                     Cardinality({j \in 1..Len(table) :
                                     adj[j] < adj[i] \/ (adj[j] = adj[i] /\ j < i)}) + 1]
    IN  [p \in 1..Len(table) |->
            LET i == CHOOSE i \in 1..Len(table) : place[i] = p
            IN  [value |-> table[i][1], adjustedChance |-> adj[i]]]

\* the adjusted temperature and wind tables, computed once
ADJUSTED_CLIMATE ==
    [season \in SEASONS, regionType \in REGION_TYPES |->
        [temperatures |-> adjustedEntries(TEMPERATURE_TABLES[season],
                                          REGION_TEMPERATURES[regionType]),
         wind |-> adjustedEntries(WIND_TABLES[season], REGION_WIND[regionType])]]

\* rollFromTable without a previous value: the first entry with `roll <=
\* entry.max`, the last entry when there is none
rollPlain(table, r) ==
    IF \E i \in 1..Len(table) : rollWithin(r, table[i], table)
    THEN table[CHOOSE i \in 1..Len(table) :
                  /\ rollWithin(r, table[i], table)
                  /\ \A j \in 1..(i - 1) : ~rollWithin(r, table[j], table)].value
    ELSE table[Len(table)].value

\* generateWeather(timeState, regionType): the condition, temperature and wind
\* it rolls; draws are the continuity test, the pick and the three rolls
generateClimate(s, regionType, draws) ==
    [condition |-> generateWeather(s, regionType, << draws[1], draws[2], draws[3] >>),
     temperature |-> rollPlain(ADJUSTED_CLIMATE[s.season, regionType].temperatures, draws[4]),
     wind |-> rollPlain(ADJUSTED_CLIMATE[s.season, regionType].wind, draws[5])]

\* the temperature roll on tenths and the condition and wind rolls on fifths,
\* each in the middle of its cell
TemperatureRolls == { 10 * k + 5 : k \in 0..9 }
ClimateRolls == { 20 * k + 10 : k \in 0..4 }

\* the previous weather of the runs: none, and one that only some seasons'
\* tables hold
ClimateWeathers == { "null", "snow" }

\* In SpecClimate `time` is the part of the time state generateWeather reads,
\* as in SpecWeather, over every region type.
InitClimate ==
    /\ time \in [season : SEASONS, weather : ClimateWeathers, regionType : REGION_TYPES]
    /\ last = NoCall
    /\ heap = <<>>
    /\ stored = 0
    /\ calls = <<>>
    /\ mutex = <<>>
    /\ saving = FALSE
    /\ emitted = {}
    /\ handlers = <<>>
    /\ requireDefined = TRUE

\* generateWeather(timeState, settings.regionType) for one outcome of its draws
GenerateClimate(draws) ==
    /\ last.op = "none"
    /\ \E weather \in { generateClimate(time, time.regionType, draws) } :
          last' = [op |-> "generateClimate", completion |-> "returned",
                   previous |-> time.weather,
                   current |-> weather.condition,
                   temperature |-> weather.temperature,
                   wind |-> weather.wind]
    /\ UNCHANGED << time, asyncVars >>

Climate ==
    \E draws \in ContinuityDraws \X PickDraws \X ClimateRolls \X TemperatureRolls \X ClimateRolls :
       GenerateClimate(draws)

SpecClimate == InitClimate /\ [][Climate]_vars

----------------------------------------------------------------------------
(* The estimator: properties *)

matchedRules(text) == { rule \in 1..Len(DURATION_PATTERNS) : matches(text, rule) }

sceneRules == { rule \in 1..Len(DURATION_PATTERNS) : DURATION_PATTERNS[rule].type = "scene" }

C12_SceneOnlyIsMaximum ==
    (/\ last.op = "estimate"
     /\ matchedRules(last.text) # {}
     /\ matchedRules(last.text) \subseteq sceneRules)
        => /\ last.result.confidence = "medium"
           /\ last.result.skipTo = "null"
           /\ \E rule \in matchedRules(last.text) :
                 last.result.minutes = DURATION_PATTERNS[rule].value
           /\ \A rule \in matchedRules(last.text) :
                 DURATION_PATTERNS[rule].value <= last.result.minutes

\* a fight, a long rest and a wait in one text: 480 minutes, not 515 or more
C12_Witness ==
    /\ last.op = "estimate"
    /\ {19, 20, 33} \subseteq matchedRules(last.text)
    /\ matchedRules(last.text) \subseteq sceneRules
    /\ last.result.minutes = 480

\* the text without the sentences in which only scene rules match
withoutSceneCues(text) ==
    SelectSeq(text, LAMBDA ph : ~(PHRASES[ph].rules # {} /\ PHRASES[ph].rules \subseteq sceneRules))

\* C13: when an explicit, fixed or skip-to rule matches, confidence is high,
\* minutes come from a matched explicit or fixed rule or are 0 beside the
\* target of a matched skip-to rule, skipTo is non-null only with minutes = 0,
\* and the matched scene rules change nothing: the text without its scene
\* cues gives the same minutes and skipTo.
C13_ExplicitShortCircuitsScenes ==
    (last.op = "estimate" /\ matchedRules(last.text) \ sceneRules # {})
        => /\ last.result.confidence = "high"
           /\ (last.result.skipTo # "null" => last.result.minutes = 0)
           /\ IF last.result.skipTo # "null"
              THEN \E rule \in matchedRules(last.text) :
                      /\ DURATION_PATTERNS[rule].type = "skipTo"
                      /\ DURATION_PATTERNS[rule].target = last.result.skipTo
              ELSE \E rule \in matchedRules(last.text) :
                      \/ /\ DURATION_PATTERNS[rule].type = "fixed"
                         /\ last.result.minutes = DURATION_PATTERNS[rule].value
                      \/ /\ DURATION_PATTERNS[rule].type \in {"hours", "minutes", "days"}
                         /\ last.result.minutes
                              = capture(last.text, rule) * DURATION_PATTERNS[rule].value
           /\ last.result.minutes = estimateSceneDuration(withoutSceneCues(last.text)).minutes
           /\ last.result.skipTo = estimateSceneDuration(withoutSceneCues(last.text)).skipTo

\* "3 hours later" beside a long rest and "the next morning": 180 minutes, no target
C13_Witness ==
    /\ last.op = "estimate"
    /\ {1, 10, 20} \subseteq matchedRules(last.text)
    /\ PHRASES[last.text[1]].number = 3
    /\ last.result.minutes = 180
    /\ last.result.skipTo = "null"

----------------------------------------------------------------------------
(* Skip to a period of the day: properties *)

\* C14: from every hour and minute and for every target, skipToMinutes is a
\* delta in 1..1440, and advancing the clock by it leaves the clock at the
\* target hour with minute 0, exactly delta minutes later, on the same or the
\* next day.
C14_SkipRollsForwardToTarget ==
    last.op = "skipTo"
        => /\ last.minutes >= 1
           /\ last.minutes <= 1440
           /\ time.hour = targetHour(last.target)
           /\ time.minute = 0
           /\ AbsMinutes(time) = AbsMinutes(last.before) + last.minutes
           /\ totalDays(time.year, time.month, time.day)
                - totalDays(last.before.year, last.before.month, last.before.day)
                  \in {0, 1}

\* 07:30, skip to morning: the target hour has passed today, 1410 minutes
\* lead to 07:00 of the next day, the first day of the next month
C14_Witness ==
    /\ last.op = "skipTo"
    /\ last.target = "morning"
    /\ last.before.hour = 7 /\ last.before.minute = 30
    /\ last.before.month = 9 /\ last.before.day = 30
    /\ last.minutes = 1410
    /\ time.month = 10 /\ time.day = 1 /\ time.hour = 7 /\ time.minute = 0

----------------------------------------------------------------------------
(* Moon phases: properties *)

\* the days k (0-based) of the cycle that starts at index i of the run on
\* which Lunara shows the phase
phaseDays(run, i, phase) == { k \in 0..(LUNARA_CYCLE - 1) : run[i + k].phase = phase }

isInterval(S) == \A a, b \in S : \A k \in a..b : k \in S

\* C15: over one-day steps Lunara's dayInCycle takes 28 distinct values and
\* then repeats; within a cycle each of the 8 phases is shown on one
\* contiguous run of days, 28/8 = 3.5 days long in whole days (3 or 4), the
\* runs following one another in the order of the phases.
C15_LunaraCycle ==
    last.op = "days"
        => LET run == last.lunara
               n   == Len(run)
           IN  /\ \A i, j \in 1..n :
                     (i < j /\ j - i < LUNARA_CYCLE) => run[i].dayInCycle # run[j].dayInCycle
               /\ \A i \in 1..n : i + LUNARA_CYCLE <= n => run[i + LUNARA_CYCLE] = run[i]
               /\ \A i \in 1..n :
                     (run[i].dayInCycle = 0 /\ i + LUNARA_CYCLE - 1 <= n)
                        => \A p \in 1..Len(MOON_PHASES) :
                              LET days == phaseDays(run, i, MOON_PHASES[p])
                              IN  /\ days # {}
                                  /\ isInterval(days)
                                  /\ Cardinality(days) \in {3, 4}
                                  /\ p > 1 =>
                                       \A a \in phaseDays(run, i, MOON_PHASES[p - 1]) :
                                          \A b \in days : a < b

\* a run from the default day 11 that has gone through a whole cycle from its
\* day 0 and come back to the day it started on
C15_Witness ==
    /\ last.op = "days"
    /\ Len(last.lunara) >= 2 * LUNARA_CYCLE
    /\ last.lunara[1].dayInCycle = DefaultMoons.lunara.dayInCycle
    /\ last.lunara[1 + LUNARA_CYCLE] = last.lunara[1]
    /\ \E i \in 1..Len(last.lunara) :
          /\ last.lunara[i].dayInCycle = 0
          /\ i + LUNARA_CYCLE - 1 <= Len(last.lunara)
          /\ phaseDays(last.lunara, i, "full") = 14..17

----------------------------------------------------------------------------
(* Celestial events: properties *)

reported(activeEvents) == { activeEvents[i] : i \in 1..Len(activeEvents) }

\* C16: the detector reports convergence exactly when both moons' phases are
\* full (present when both are, absent when either is anything else), and
\* every rule whose condition is true is reported, each once.
C16_ConvergenceIffBothFull ==
    last.op = "checkCelestialEvents"
        => /\ "convergence" \in reported(last.activeEvents)
                <=> (time.moons.lunara.phase = "full" /\ time.moons.veil.phase = "full")
           /\ "silver_tide" \in reported(last.activeEvents)
                <=> time.moons.lunara.dayInCycle = LUNARA_CYCLE \div 2
           /\ "starfall" \in reported(last.activeEvents)
                <=> (time.month = 8 /\ time.day \in 10..15)
           /\ \A i \in 1..Len(CELESTIAL_EVENT_IDS) :
                 eventCondition(CELESTIAL_EVENT_IDS[i], time.moons.lunara, time.moons.veil,
                                [month |-> time.month, day |-> time.day])
                    => CELESTIAL_EVENT_IDS[i] \in reported(last.activeEvents)
           /\ Cardinality(reported(last.activeEvents)) = Len(last.activeEvents)

\* both moons full during Starfall: convergence is reported, and Starfall with it
C16_Witness ==
    /\ last.op = "checkCelestialEvents"
    /\ time.moons.lunara.phase = "full"
    /\ time.moons.veil.phase = "full"
    /\ last.activeEvents = << "convergence", "starfall" >>

\* Lunara full and the Veil one day short of full: no convergence
C16_WitnessAbsent ==
    /\ last.op = "checkCelestialEvents"
    /\ time.moons.lunara.phase = "full"
    /\ time.moons.veil.phase = "waxing_gibbous"
    /\ "convergence" \notin reported(last.activeEvents)

----------------------------------------------------------------------------
(* Festivals: properties *)

\* the days from the date of s to month/day of the year after s.year
daysToNextYears(s, month, day) ==
    totalDays(s.year + 1, month, day) - totalDays(s.year, s.month, s.day)

\* C17: a festival of the current month whose day has passed is treated as
\* next year's occurrence: it is returned whenever the number of days to its
\* date next year is within the horizon, with daysUntil equal to that number.
C17_PassedFestivalIsNextYear ==
    (last.op = "getUpcomingFestivals" /\ last.completion = "returned")
        => \A i \in 1..Len(FESTIVALS) :
              (/\ FESTIVALS[i].month = time.month
               /\ FESTIVALS[i].day < time.day
               /\ daysToNextYears(time, FESTIVALS[i].month, FESTIVALS[i].day) <= last.daysAhead)
                 => \E p \in 1..Len(last.upcoming) :
                       /\ last.upcoming[p].name = FESTIVALS[i].name
                       /\ last.upcoming[p].daysUntil
                            = daysToNextYears(time, FESTIVALS[i].month, FESTIVALS[i].day)

\* C18: every returned entry has 0 <= daysUntil <= horizon, the entries are in
\* ascending daysUntil order, isToday is true exactly when daysUntil = 0, and
\* isOngoing exactly when daysUntil is negative and >= -duration.
C18_UpcomingEntries ==
    (last.op = "getUpcomingFestivals" /\ last.completion = "returned")
        => /\ \A p \in 1..Len(last.upcoming) :
                 LET e == last.upcoming[p]
                     f == CHOOSE f \in reported(FESTIVALS) : f.name = e.name
                 IN  /\ e.daysUntil >= 0
                     /\ e.daysUntil <= last.daysAhead
                     /\ e.isToday <=> e.daysUntil = 0
                     /\ e.isOngoing <=> (e.daysUntil < 0 /\ e.daysUntil >= 0 - f.duration)
           /\ \A p, q \in 1..Len(last.upcoming) :
                 p < q => last.upcoming[p].daysUntil <= last.upcoming[q].daysUntil

\* on Darkest Eve the 14-day list holds today's festival, then Year's End in 8
\* days and Frostmeet in 9, although Frostmeet comes first in the table
C18_Witness ==
    /\ last.op = "getUpcomingFestivals"
    /\ last.completion = "returned"
    /\ last.daysAhead = FESTIVAL_HORIZON
    /\ Len(last.upcoming) = 3
    /\ last.upcoming[1].isToday
    /\ last.upcoming[2].daysUntil = 8
    /\ last.upcoming[3].name = "Frostmeet"
    /\ last.upcoming[3].daysUntil = 9

\* C19: getCurrentFestival returns a festival exactly when the date's month is
\* the festival's and festival.day <= day < festival.day + duration, with
\* dayOfFestival = day - festival.day + 1 and isLastDay true exactly on day
\* festival.day + duration - 1; otherwise it returns null.
C19_CurrentFestival ==
    last.op = "getCurrentFestival"
        => /\ \A i \in 1..Len(FESTIVALS) :
                 LET f == FESTIVALS[i]
                 IN  (/\ f.month = time.month
                      /\ f.day <= time.day
                      /\ time.day < f.day + f.duration)
                        <=> (/\ Len(last.current) = 1
                             /\ last.current[1].name = f.name)
           /\ Len(last.current) = 1
                 => \E i \in 1..Len(FESTIVALS) :
                       LET f == FESTIVALS[i]
                       IN  /\ last.current[1].name = f.name
                           /\ last.current[1].dayOfFestival = time.day - f.day + 1
                           /\ last.current[1].isLastDay
                                <=> time.day = f.day + f.duration - 1
           /\ Len(last.current) <= 1

\* the second and last day of Midsummer Eve
C19_Witness ==
    /\ last.op = "getCurrentFestival"
    /\ last.current = << [name |-> "Midsummer Eve", dayOfFestival |-> 2, isLastDay |-> TRUE] >>

\* the day after Midsummer Eve: null
C19_WitnessNull ==
    /\ last.op = "getCurrentFestival"
    /\ time.month = 7
    /\ time.day = 17
    /\ last.current = << >>

----------------------------------------------------------------------------
(* Weather continuity: properties *)

\* the members of the family that the season's table holds
inTable(season, previous) ==
    { i \in 1..Len(getSimilarConditions(previous)) :
         \E e \in 1..Len(WEATHER_TABLES[season]) :
            WEATHER_TABLES[season][e].condition = getSimilarConditions(previous)[i] }

\* the natural share of the family in the season's table, in percent: the
\* sum of the steps of the cumulative `chance` column at the family's rows
naturalShare(season, previous) ==
    LET table == WEATHER_TABLES[season]
        sum[e \in 0..Len(table)] ==
            IF e = 0 THEN 0
            ELSE sum[e - 1]
                 + (IF table[e].condition \in family(previous)
                    THEN table[e].chance - (IF e = 1 THEN 0 ELSE table[e - 1].chance)
                    ELSE 0)
    IN  sum[Len(table)]

C20_WitnessOtherFamily ==
    /\ last.op = "generateWeather"
    /\ time.season = "autumn"
    /\ last.previous = "rain"
    /\ last.current = "clear"

----------------------------------------------------------------------------
(* Forecast: properties *)

\* C21: the returned forecast has exactly `days` entries numbered 1..days,
\* every entry's condition is in the season's condition table, and the
\* continuity seed of entry i + 1 is the condition of entry i (none for the
\* first entry).
C21_ForecastFeedsForward ==
    (last.op = "generateForecast" /\ last.completion = "returned")
        => /\ Len(last.forecast) = last.days
           /\ Len(last.seeds) = last.days
           /\ \A i \in 1..Len(last.forecast) :
                 /\ last.forecast[i].day = i
                 /\ \E e \in 1..Len(WEATHER_TABLES[last.season]) :
                       WEATHER_TABLES[last.season][e].condition = last.forecast[i].condition
                 /\ last.seeds[i] = IF i = 1 THEN "null" ELSE last.forecast[i - 1].condition

\* a returned three-day winter forecast: snow, then blizzard, then clear
C21_Witness ==
    /\ last.op = "generateForecast"
    /\ last.completion = "returned"
    /\ last.season = "winter"
    /\ last.days = MaxForecastDays
    /\ Len(last.forecast) >= 3
    /\ last.forecast[1].condition = "snow"
    /\ last.forecast[2].condition = "blizzard"
    /\ last.forecast[3].condition = "clear"
    /\ last.seeds[2] = "snow"

----------------------------------------------------------------------------
(* Manual weather: properties *)

DISPLAY_FIELDS == { "currentName", "icon", "visibility", "description" }

\* C22: setWeather changes only the overridden weather fields and, when a
\* known condition is overridden, the display fields of that condition
\* (name, icon, visibility, description); every other weather field and every
\* calendar and moon field of the state is unchanged. An overridden field
\* holds the override's value unless the display refresh replaces it.
C22_SetWeatherFrame ==
    (last.op = "setWeather" /\ last.result = "weather")
        => LET s == heap[stored]
               o == last.weatherOverride
               display == "current" \in DOMAIN o /\ o.current \in DOMAIN WEATHER_CONDITIONS
           IN  /\ [s EXCEPT !.weather = last.before.weather] = last.before
               /\ \A f \in WEATHER_FIELDS :
                     IF display /\ f \in DISPLAY_FIELDS
                     THEN s.weather[f]
                            = (CASE f = "currentName" -> WEATHER_CONDITIONS[o.current].name
                                 [] f = "icon"        -> WEATHER_CONDITIONS[o.current].icon
                                 [] f = "visibility"  -> WEATHER_CONDITIONS[o.current].visibility
                                 [] f = "description" -> WEATHER_CONDITIONS[o.current].description)
                     ELSE IF f \in DOMAIN o
                     THEN s.weather[f] = o[f]
                     ELSE s.weather[f] = last.before.weather[f]

\* generated rain overridden with a blizzard at freezing: the display fields
\* follow, wind, precipitation and forecast stay those of the rain
C22_Witness ==
    /\ last.op = "setWeather"
    /\ last.result = "weather"
    /\ last.before.weather = GeneratedRain
    /\ last.weatherOverride = [current |-> "blizzard", temperature |-> "freezing"]
    /\ heap[stored].weather["currentName"] = "Blizzard"
    /\ heap[stored].weather["temperature"] = "freezing"
    /\ heap[stored].weather["precipitation"] = "moderate"
    /\ heap[stored].weather["forecast"] = "forecast of 3 days"
    /\ heap[stored].moons = DefaultMoons

----------------------------------------------------------------------------
(* The whole time state: properties *)

TIME_EVENTS == { "timeAdvanced", "newDay", "newMonth", "newYear", "moonPhaseChanged" }

\* C23: advanceTime(minutes, {silent: true}) emits no notification: neither
\* timeAdvanced, nor newDay, newMonth or newYear, nor moonPhaseChanged.
C23_SilentEmitsNothing ==
    (last.op = "advanceTime" /\ last.silent)
        => \A i \in 1..Len(last.events) : last.events[i].event \notin TIME_EVENTS

\* C26: in every snapshot the derived fields agree with the raw fields:
\* monthName and season are those of the month table's entry for month, and
\* dayOfWeek is the weekday at index (days since the epoch) mod 7.
C26_DerivedAgree ==
    /\ time.monthName = MONTHS[time.month].name
    /\ time.season = MONTHS[time.month].season
    /\ time.dayOfWeek = DAYS_OF_WEEK[(totalDays(time.year, time.month, time.day) % 7) + 1]

\* the same, after any call that changed the raw fields
C26_DerivedAgreeAfterUpdate ==
    (last.op = "setTime" \/ (last.op = "advanceTime" /\ last.minutes > 0))
        => C26_DerivedAgree

MOON_CYCLES == [lunara |-> LUNARA_CYCLE, veil |-> VEIL_CYCLE]

\* C27: in every snapshot each moon's daysUntilNew is in 1..cycle: the cycle
\* length minus dayInCycle when dayInCycle > 0, and the cycle length (never
\* 0) when dayInCycle = 0.
C27_DaysUntilNewRange ==
    \A moon \in DOMAIN MOON_CYCLES :
        /\ time.moons[moon].daysUntilNew \in 1..MOON_CYCLES[moon]
        /\ time.moons[moon].daysUntilNew
             = (IF time.moons[moon].dayInCycle > 0
                THEN MOON_CYCLES[moon] - time.moons[moon].dayInCycle
                ELSE MOON_CYCLES[moon])

\* the same, once updateMoonPhases has run
C27_DaysUntilNewRangeAfterStep ==
    time.moons.veil.previousPhase # "undefined" => C27_DaysUntilNewRange

\* C28: in every snapshot each moon has dayInCycle in 0..cycle-1 and its
\* phase is the entry of the phase table at an index k in 0..7 with
\* k * cycle/8 <= dayInCycle < (k + 1) * cycle/8; a call that runs the tracker
\* sets dayInCycle to (dayInCycle + 1) mod cycle, any other leaves it.
C28_MoonInvariant ==
    /\ [](\A moon \in DOMAIN MOON_CYCLES :
             /\ time.moons[moon].dayInCycle \in 0..(MOON_CYCLES[moon] - 1)
             /\ \E k \in 0..7 :
                   /\ k * MOON_CYCLES[moon] <= 8 * time.moons[moon].dayInCycle
                   /\ 8 * time.moons[moon].dayInCycle < (k + 1) * MOON_CYCLES[moon]
                   /\ time.moons[moon].phase = MOON_PHASES[k + 1])
    /\ [][\A moon \in DOMAIN MOON_CYCLES :
             time'.moons[moon].dayInCycle
                = (IF last'.moonStepped
                   THEN (time.moons[moon].dayInCycle + 1) % MOON_CYCLES[moon]
                   ELSE time.moons[moon].dayInCycle)]_vars

\* a tracker step has wrapped Lunara to day 0, a new moon, with the Veil in
\* the middle of its cycle
C28_Witness ==
    /\ last.moonStepped
    /\ time.moons.lunara.dayInCycle = 0
    /\ time.moons.lunara.phase = "new"
    /\ time.moons.veil.dayInCycle = VEIL_CYCLE \div 2
    /\ time.moons.veil.phase = "waxing_gibbous"

\* the moonPhaseChanged events of a call for one moon
phaseEvents(events, moon) ==
    SelectSeq(events, LAMBDA e : e.event = "moonPhaseChanged" /\ e.moon = moon)

\* C29: a tracker step emits moonPhaseChanged{moon, oldPhase, newPhase} for a
\* moon exactly when the moon's phase after the step differs from its phase
\* before the step, with those two phases, and never when only dayInCycle
\* changed; a call without a tracker step emits none. Every step of every run
\* from the default snapshot.
C29_PhaseChangeEmitted ==
    [][\A moon \in DOMAIN MOON_CYCLES :
          phaseEvents(last'.events, moon)
             = (IF last'.moonStepped /\ time.moons[moon].phase # time'.moons[moon].phase
                THEN << [event |-> "moonPhaseChanged", moon |-> moon,
                         oldPhase |-> time.moons[moon].phase,
                         newPhase |-> time'.moons[moon].phase] >>
                ELSE << >>)]_vars

\* a step that took Lunara from waxing gibbous to full and left the Veil new:
\* one event, Lunara's
C29_Witness ==
    /\ last.moonStepped
    /\ time.moons.lunara.dayInCycle = LUNARA_CYCLE \div 2
    /\ time.moons.veil.phase = "new"
    /\ phaseEvents(last.events, "lunara")
         = << [event |-> "moonPhaseChanged", moon |-> "lunara",
               oldPhase |-> "waxing_gibbous", newPhase |-> "full"] >>
    /\ phaseEvents(last.events, "veil") = << >>

-----------------------------------------------------------------------------
(* The domain store: properties *)

C24_WitnessRegister ==
    /\ last.op = "registerDomain"
    /\ last.domain = "time"
    /\ last.result = FALSE
    /\ stored.domainOwners["time"] \in EXTENSIONS \ { last.extensionId }

\* every chained write that runs was issued by the extension that owns the
\* domain when it runs (stronger than C24: unregisterDomain may intervene)
WritesByCurrentOwner ==
    [][ last'.op = "job" /\ last'.domain \in DEFAULT_DOMAINS
          => stored.domainOwners[last'.domain] = last'.extensionId ]_vars

-----------------------------------------------------------------------------
(* The event bus: properties *)

\* C25: a listener subscribed with once (one time) is invoked at most one
\* time, whatever emit / emitAsync calls follow, re-entrant ones included.
C25_OnceAtMostOnce == last.invoked["once"] <= 1

-----------------------------------------------------------------------------
(* The estimator: priorities *)

\* the matched rules of the highest priority matched
topRules(text) ==
    { rule \in matchedRules(text) :
        \A other \in matchedRules(text) :
            DURATION_PATTERNS[other].priority <= DURATION_PATTERNS[rule].priority }

\* what a rule makes of the text when it alone decides the minutes
minutesOf(text, rule) ==
    IF DURATION_PATTERNS[rule].type \in {"hours", "minutes", "days"}
    THEN capture(text, rule) * DURATION_PATTERNS[rule].value
    ELSE DURATION_PATTERNS[rule].value

\* C30: only the matched rules of the highest priority matched contribute to
\* the result: the returned minutes, or the skip target, are those of such a
\* rule, and a matched rule of lower priority never determines or raises them.
C30_OnlyTopPriorityContributes ==
    (last.op = "estimate" /\ matchedRules(last.text) # {})
        => /\ last.result.skipTo = "null"
                => \E rule \in topRules(last.text) :
                      /\ DURATION_PATTERNS[rule].type # "skipTo"
                      /\ last.result.minutes = minutesOf(last.text, rule)
           /\ last.result.skipTo # "null"
                => \E rule \in topRules(last.text) :
                      /\ DURATION_PATTERNS[rule].type = "skipTo"
                      /\ last.result.skipTo = DURATION_PATTERNS[rule].target

\* the same whenever a rule that is not a scene rule matches: the scene rules
\* are where the priority is not honoured
PriorityHonouredAmongExplicit ==
    (/\ last.op = "estimate"
     /\ ~(matchedRules(last.text) \subseteq sceneRules))
        => C30_OnlyTopPriorityContributes

-----------------------------------------------------------------------------
(* The detector on missing data: properties *)

\* the rule's condition can be evaluated on the data there is, and is true
holdsOnData(id, lunara, veil, date) ==
    /\ id \in { "convergence", "veils_eclipse", "void_night" }
          => lunara.present /\ veil.present
    /\ id = "silver_tide" => lunara.present
    /\ eventCondition(id, lunara, veil, date)

\* C31: the detector always returns, and reports exactly the rules that are
\* not broken and whose condition is true on the data there is: a rule that
\* throws or needs a missing moon does not match, every other rule (Starfall,
\* which reads the date only) is still reported.
C31_BrokenRuleBlocksNothing ==
    last.op = "checkCelestialEvents"
        => /\ last.completion = "returned"
           /\ \A i \in 1..Len(CELESTIAL_EVENT_IDS) :
                 LET id == CELESTIAL_EVENT_IDS[i] IN
                 (\E k \in 1..Len(last.activeEvents) : last.activeEvents[k] = id)
                     <=> /\ id \notin last.broken
                         /\ holdsOnData(id, last.lunara, last.veil, last.date)

\* the same when both moons are there: a broken rule blocks no other rule
BrokenRuleBlocksNothingWithMoons ==
    (last.op = "checkCelestialEvents" /\ ~moonsMissing(last.lunara, last.veil))
        => C31_BrokenRuleBlocksNothing

-----------------------------------------------------------------------------
(* The scheduler against the clock: properties *)

\* the date is one the calendar has
validDate(s) == s.month \in 1..12 /\ s.day \in 1..getMonthLength(s.month, s.year)

\* the calendar fields after advanceTime(1440) has been called `days` times
daysLater(s, days) ==
    LET stepDays[t \in [year : Int, month : 1..12, day : 1..31,
                        hour : 0..23, minute : 0..59], n \in Nat] ==
            IF n = 0 THEN t
            ELSE IF n = 1 THEN cascade(t, 1440).time
            ELSE stepDays[stepDays[t, n \div 2], n - (n \div 2)]
    IN  stepDays[[year |-> s.year, month |-> s.month, day |-> s.day,
                  hour |-> s.hour, minute |-> s.minute], days]

festivalNamed(name) ==
    FESTIVALS[CHOOSE i \in 1..Len(FESTIVALS) : FESTIVALS[i].name = name]

\* the clock, stepped daysUntil days from the date, is on the entry's festival
reachesFestival(s, entry) ==
    LET reached == daysLater(s, entry.daysUntil)
    IN  /\ reached.month = festivalNamed(entry.name).month
        /\ reached.day = festivalNamed(entry.name).day

\* C32: for every valid date and every entry of getUpcomingFestivals, stepping
\* the clock one day at a time daysUntil times from the date reaches the
\* festival's month and day.
C32_DayCountMatchesClock ==
    (/\ last.op = "getUpcomingFestivals"
     /\ last.completion = "returned"
     /\ validDate(time))
        => \A p \in 1..Len(last.upcoming) : reachesFestival(time, last.upcoming[p])

\* the same for the festivals whose day exists in their month
DayCountMatchesClockOnExistingDays ==
    (/\ last.op = "getUpcomingFestivals"
     /\ last.completion = "returned"
     /\ validDate(time))
        => \A p \in 1..Len(last.upcoming) :
              festivalNamed(last.upcoming[p].name).day
                  <= getMonthLength(festivalNamed(last.upcoming[p].name).month, MaxYear)
              => reachesFestival(time, last.upcoming[p])

-----------------------------------------------------------------------------
(* Concurrent advances: properties *)

\* two advanceTime(m), m > 0, have been issued and everything has settled
twoAdvancesSettled ==
    /\ Len(calls) = 2
    /\ \A i \in 1..2 : /\ calls[i].op = "advance"
                       /\ calls[i].minutes > 0
                       /\ calls[i].pc = "done"
    /\ mutex = << >>
    /\ ~saving

\* C33: no update is lost between two advances: once both have settled, the
\* committed snapshot's absolute time is the absolute time the first call
\* started from (the default's on an empty store) plus m1 + m2.
C33_NoLostUpdate ==
    twoAdvancesSettled
        => /\ stored # 0
           /\ AbsMinutes(calendarOf(heap[stored]))
                = AbsMinutes(calls[1].oldTime) + calls[1].minutes + calls[2].minutes

\* the same when the second call read the object the first one worked on
NoLostUpdateOnSharedObject ==
    (twoAdvancesSettled /\ calls[1].ref = calls[2].ref) => C33_NoLostUpdate

-----------------------------------------------------------------------------
(* The moons against the calendar: properties *)

\* the day boundaries that advanceTime(minutes) crosses from snapshot s
daysCrossed(s, minutes) ==
    IF minutes > 0 THEN (s.hour * 60 + s.minute + minutes) \div 1440 ELSE 0

\* the moons after a call that crossed k day boundaries are k days further
moonsFollow(k) ==
    IF k = 0 THEN time'.moons = time.moons
    ELSE \A moon \in DOMAIN MOON_CYCLES :
            time'.moons[moon].dayInCycle
                = (time.moons[moon].dayInCycle + k) % MOON_CYCLES[moon]

\* C34: an advance that crosses k >= 1 day boundaries leaves each moon's
\* dayInCycle at (previous dayInCycle + k) mod cycle, and an advance that
\* crosses none leaves both moons as they were.
C34_MoonsFollowCalendar ==
    [][ last'.op = "advanceTime" => moonsFollow(daysCrossed(time, last'.minutes)) ]_vars

\* the same for the calls that cross at most one day boundary
MoonsFollowSingleDays ==
    [][ (last'.op = "advanceTime" /\ daysCrossed(time, last'.minutes) <= 1)
          => moonsFollow(daysCrossed(time, last'.minutes)) ]_vars

-----------------------------------------------------------------------------
(* Queued writes and a change of chat: properties *)

\* C35: a snapshot is committed to the chat it was requested in or not at
\* all: the stored state of a chat never holds a snapshot that belongs to
\* another chat.
C35_CommitStaysInItsChat ==
    \A chat \in CHATS : stored.chatMetadata[chat] \in { "null", chat }

-----------------------------------------------------------------------------
(* The derived celestial fields: properties *)

\* no call or handler is in progress and a snapshot is stored
quiescent ==
    /\ stored # 0
    /\ \A i \in 1..Len(calls) : calls[i].pc = "done"
    /\ \A j \in 1..Len(handlers) : handlers[j].pc \in { "done", "rejected" }
    /\ mutex = << >>
    /\ ~saving

\* C36: whenever nothing is in progress, the stored snapshot's celestialEvents
\* is checkCelestialEvents of the snapshot and its upcomingFestivals is
\* getUpcomingFestivals of the snapshot with the horizon of updateCelestialState,
\* after every sequence of advanceTime (silent or not) and setTime calls.
C36_DerivedCelestialFresh ==
    (quiescent /\ \E i \in 1..Len(calls) : Mutation(calls[i]))
        => /\ heap[stored].celestialEvents = checkCelestialEvents(heap[stored])
           /\ heap[stored].upcomingFestivals
                = getUpcomingFestivals(heap[stored], FESTIVAL_HORIZON)

-----------------------------------------------------------------------------
(* setTime twice: properties *)

\* this step is setTime(newTime) directly after setTime(newTime)
sameSetTimeAgain ==
    /\ last.op = "setTime"
    /\ last'.op = "setTime"
    /\ last'.newTime = last.newTime

MOON_FIELDS == { "dayInCycle", "phase", "daysUntilFull", "daysUntilNew" }

\* C37: setTime is idempotent: the same partial applied a second time leaves
\* the calendar fields and both moons (dayInCycle, phase, daysUntilFull,
\* daysUntilNew) as the first application left them.
C37_SetTimeIdempotent ==
    [][ sameSetTimeAgain
          => /\ calendarOf(time') = calendarOf(time)
             /\ \A moon \in DOMAIN MOON_CYCLES, f \in MOON_FIELDS :
                   time'.moons[moon][f] = time.moons[moon][f] ]_vars

\* the calendar fields alone
SetTimeIdempotentOnCalendar ==
    [][ sameSetTimeAgain => calendarOf(time') = calendarOf(time) ]_vars

-----------------------------------------------------------------------------
(* daysUntilFull: properties *)

\* the moon's fields were written by updateMoonPhases
trackerProduced(moon) == time.moons[moon].previousPhase # "undefined"

\* C39: for each moon, in every snapshot the tracker produced, daysUntilFull
\* is in 0..cycle-1 and daysUntilFull = 0 implies phase = full.
C39_ZeroDaysUntilFullIsFull ==
    \A moon \in DOMAIN MOON_CYCLES :
        trackerProduced(moon)
            => /\ time.moons[moon].daysUntilFull \in 0..(MOON_CYCLES[moon] - 1)
               /\ time.moons[moon].daysUntilFull = 0 => time.moons[moon].phase = "full"

\* the range for both moons, and the implication for Lunara, whose cycle is even
DaysUntilFullRangeAndLunara ==
    /\ \A moon \in DOMAIN MOON_CYCLES :
          trackerProduced(moon)
              => time.moons[moon].daysUntilFull \in 0..(MOON_CYCLES[moon] - 1)
    /\ (trackerProduced("lunara") /\ time.moons.lunara.daysUntilFull = 0)
          => time.moons.lunara.phase = "full"

-----------------------------------------------------------------------------
(* The festival table against the calendar: properties *)

\* the days of the year on which getCurrentFestival returns festival
festivalDays(festival, year) ==
    { date \in (1..12) \X (1..31) :
        /\ date[2] <= getMonthLength(date[1], year)
        /\ \E s \in { [DefaultState EXCEPT !.year = year, !.month = date[1],
                                           !.day = date[2]] } :
              /\ getCurrentFestival(s) # << >>
              /\ getCurrentFestival(s)[1].name = festival.name }

\* all the days of the festival exist in its month in that year
daysExist(festival, year) ==
    festival.day + festival.duration - 1 <= getMonthLength(festival.month, year)

\* C38: every festival of the table occurs: in every year its days
\* day .. day + duration - 1 exist in its month, and over the days of the year
\* getCurrentFestival returns it on exactly `duration` days.
C38_EveryFestivalOccurs ==
    last.op = "getCurrentFestival"
        => \A i \in 1..Len(FESTIVALS) :
              /\ daysExist(FESTIVALS[i], time.year)
              /\ Cardinality(festivalDays(FESTIVALS[i], time.year)) = FESTIVALS[i].duration

\* a festival whose days exist in the year is returned on exactly those days
FestivalOccursWhereDaysExist ==
    last.op = "getCurrentFestival"
        => \A i \in 1..Len(FESTIVALS) :
              daysExist(FESTIVALS[i], time.year)
                  => festivalDays(FESTIVALS[i], time.year)
                       = { <<FESTIVALS[i].month, FESTIVALS[i].day + k>> :
                             k \in 0..(FESTIVALS[i].duration - 1) }

\* the festivals that lack a day: Veilnight in every year, Year's End in the
\* years that are not leap years
FestivalsLackingDays ==
    last.op = "getCurrentFestival"
        => { FESTIVALS[i].name : i \in { j \in 1..Len(FESTIVALS) :
                                           ~daysExist(FESTIVALS[j], time.year) } }
             = IF time.year % 4 = 0 THEN { "Veilnight" } ELSE { "Veilnight", "Year's End" }

----------------------------------------------------------------------------
(* The region modifiers: properties *)

\* the values of a temperature or wind table
valuesOf(table) == { table[i][1] : i \in 1..Len(table) }

\* the conditions of a season's table
conditionsOf(season) ==
    { WEATHER_TABLES[season][i].condition : i \in 1..Len(WEATHER_TABLES[season]) }

\* the drawn condition, temperature and wind are members of the season's tables
drawnFromSeason ==
    /\ last.current \in conditionsOf(time.season)
    /\ last.temperature \in valuesOf(TEMPERATURE_TABLES[time.season])
    /\ last.wind \in valuesOf(WIND_TABLES[time.season])

\* C40: a region modifier of 0 removes a bucket from the draw: in every season
\* and for every roll a generation in the tundra never returns the temperature
\* hot, and the drawn condition, temperature and wind are always members of
\* the season's tables.
C40_ZeroModifierRemovesBucket ==
    last.op = "generateClimate" =>
        /\ time.regionType = "tundra" => last.temperature # "hot"
        /\ drawnFromSeason

\* The membership alone: whatever the region and the rolls, the three drawn
\* values come from the season's tables.
DrawnFromSeasonTables ==
    last.op = "generateClimate" => drawnFromSeason

====
